---------------------------- MODULE Spec2Model ----------------------------
(***************************************************************************)
(* A model of the peer-to-peer core of concordium-node: the connection     *)
(* registry with its admission control (TlsServer / TlsServerPrivate), the *)
(* persistent ban store (p2p/bans.rs) and the low-level connection codec   *)
(* (connection/low_level.rs: Noise XX handshake, framing, chunked sealing).*)
(***************************************************************************)
EXTENDS Integers, Sequences, FiniteSets, TLC

(***************************************************************************)
(* Bounds of the model.                                                    *)
(***************************************************************************)
MaxTokens == 2
MaxPeers == 1
\* the codec at a scale where frames can be followed byte by byte
DhLen == 1
MacLen == 1
MaxMessageLen == 4
MaxPayload == 4
MaxWrites == 2
MaxWire == 5
\* the router: the capacity of the dedup queue, the broadcasts sent
QueueCap == 2
MaxBroadcasts == 2

\* direct messages sent over the dialled connection
MaxDirects == 2

\* the PeerList response: the target of connected nodes
MaxDesired == 2

\* the elements a node has stored for retransmission
MaxStored == 2

\* the messages relayed to the queues of the threads before the shutdown
MaxRelays == 3

\* the failed packets counted on one connection
MaxFailed == 50

IPs == {1, 2}
Ports == {8888}
NodeIds == {1}
Addrs == [ip : IPs, port : Ports]
PeerTypes == {"Node", "Bootstrapper"}
\* the networks a server can join
ServerNetworks == {100, 200, 300}

(***************************************************************************)
(* Program constants.                                                      *)
(***************************************************************************)
FIRST_TOKEN == 2
MAX_FAILED_PACKETS_ALLOWED == 50
MAX_BOOTSTRAPPER_KEEP_ALIVE == 300000
MAX_NORMAL_KEEP_ALIVE == 1200000
PROTOCOL_MAX_MESSAGE_SIZE == 268435456
NOISE_MAX_MESSAGE_LEN == 64 * 1024 - 1
NOISE_AUTH_TAG_LEN == 16
NOISE_MAX_PAYLOAD_LEN == NOISE_MAX_MESSAGE_LEN - NOISE_AUTH_TAG_LEN
\* noiseexplorer_xx::consts
DHLEN == 32
MAC_LENGTH == 16

VARIABLES
    \* --- TlsServer / TlsServerPrivate / P2PNode -------------------------
    self_type,         \* TlsServer.self_peer.peer_type()
    max_peers,         \* TlsServer.max_peers
    no_trust_bans,     \* P2PNode.config.no_trust_bans
    connections,       \* TlsServerPrivate.connections (a Vec)
    next_id,           \* TlsServer.next_id
    banned_peers,      \* TlsServerPrivate.banned_peers
    unreachable_nodes, \* TlsServerPrivate.unreachable_nodes
    to_disconnect,     \* ids queued by the default Handshake callback
    kvs,               \* the persistent "bans" store: the set of its keys
    now,               \* get_current_stamp()
    buckets,           \* Buckets: the peers known from their handshakes
    panicked,          \* a panic!/unimplemented! was hit
    ret,               \* the last operation and what it returned
    \* --- history, for stating the properties ---------------------------
    bans_done,         \* ban ids whose ban completed, not since lifted
    \* --- ConnectionLowLevel, one at each end of a connection ------------
    lim,               \* the size limits the codec runs with
    ll,                \* noise_session, incoming_msg, output_queue per end
    socket,            \* per end: the bytes written to it and not yet read
    conn_err,          \* per end: the error read_stream bailed with
    \* --- history, for stating the properties ---------------------------
    frames,            \* per end: the frames read_from_socket completed
    app_sent,          \* per end: the payloads given to write_to_socket
    queued,            \* per end: the bytes of the frames queued, in order
    accepted,          \* per end: the bytes its socket has accepted
    read_ret,          \* per end: the last socket read and its result
    injected,          \* the number of bytes a raw peer has written
    \* --- the chunking rule on lengths ----------------------------------
    plain_len,         \* the length of a payload to seal
    sealed_lens,       \* the lengths of the chunks the writer sealed
    cut_lens,          \* the lengths of the chunks the receiver cut
    chunk_pc,          \* "input", "sealed", "cut"
    \* --- the packet router of each node of a small network -------------
    world,             \* the links between the nodes, the networks of each
    router,            \* per node: dedup queue, and what it did (history)
    chan,              \* per directed link: the packets in flight, in order
    originated,        \* the broadcasts the applications have sent
    direct,            \* node 2 dials node 1 and sends it direct messages
    \* --- the message loop of the node (cli.rs) ---------------------------
    peer_list,         \* the handling of a PeerList response, and its dials
    retransmit,        \* stored elements, the last Retransmit and its replies
    \* --- the threads of the node and what they share ---------------------
    dptr,              \* the lock of TlsServer.dptr: its writer, the I/O under it
    threads,           \* main and the threads it starts, and their queues
    \* --- a packet on its way through serial and deserial -----------------
    packet_io,         \* the packet, its bytes, and what is read back
    \* --- the network list, shared by the server and its connections ------
    networks,          \* TlsServerPrivate.networks
    \* --- one call of flush_socket, iteration by iteration ----------------
    flush_io,          \* the output queue, the message being copied, the result
    \* --- BanNode requests between connected nodes ------------------------
    ban_net            \* the links, each node's ban store, the requests in flight

serverVars == <<self_type, max_peers, no_trust_bans, connections, next_id,
                banned_peers, unreachable_nodes, to_disconnect, kvs, now,
                panicked, ret, bans_done, buckets>>

codecVars == <<ll, socket, conn_err, frames, app_sent, queued, accepted,
               read_ret, injected>>

chunkVars == <<plain_len, sealed_lens, cut_lens, chunk_pc>>

routerVars == <<world, router, chan, originated, direct>>

cliVars == <<peer_list, retransmit>>

procVars == <<dptr, threads>>

unitVars == <<packet_io, networks, flush_io, ban_net>>

vars == <<serverVars, lim, codecVars, chunkVars, routerVars, cliVars, procVars, unitVars>>

(***************************************************************************)
(* Big-endian integers (byteorder NetworkEndian).                          *)
(***************************************************************************)
U32BE(n) == << (n \div 16777216) % 256, (n \div 65536) % 256,
               (n \div 256) % 256, n % 256 >>

ReadU32BE(b) == ((b[1] * 256 + b[2]) * 256 + b[3]) * 256 + b[4]

U16BE(n) == << (n \div 256) % 256, n % 256 >>

ReadU16BE(b) == b[1] * 256 + b[2]

\* ids of the model are below 2^32: the upper four bytes are zero
U64BE(n) == <<0, 0, 0, 0>> \o U32BE(n)

ReadU64BE(b) == ReadU32BE(SubSeq(b, 5, 8))

(***************************************************************************)
(* BanId and its encoding as a store key (bans.rs).                        *)
(***************************************************************************)
BanNodeId(id) == [kind |-> "NodeId", val |-> id]
BanIp(ip) == [kind |-> "Ip", val |-> ip]
BanIds == {BanNodeId(id) : id \in NodeIds} \cup {BanIp(ip) : ip \in IPs}

\* IpAddr::serial: the variant tag 4 and the four octets of an IPv4 address
IpSerial(ip) == <<4>> \o U32BE(ip)

BanIdSerial(b) ==
    IF b.kind = "NodeId" THEN <<0>> \o U64BE(b.val)
                         ELSE <<1>> \o IpSerial(b.val)

BanIdDeserial(k) ==
    IF k[1] = 0 THEN BanNodeId(ReadU64BE(SubSeq(k, 2, 9)))
                ELSE BanIp(ReadU32BE(SubSeq(k, 3, 6)))


(***************************************************************************)
(* The connection registry (TlsServerPrivate).                             *)
(***************************************************************************)
NoAddr == [ip |-> 0, port |-> 0]
SelfAddr == [ip |-> 1, port |-> 8888]

\* A connection as accept and connect build it: the remote peer is
\* RemotePeer::PreHandshake(peer_type, addr), no peer id is known (peer = 0).
NewConnection(token, peer_type, addr) ==
    [token |-> token, peer_type |-> peer_type, ip |-> addr.ip,
     port |-> addr.port, peer |-> 0, closing |-> FALSE,
     last_seen |-> now, failed_pkts |-> 0]

connections_count == Len(connections)

Min(S) == CHOOSE x \in S : \A y \in S : x <= y

\* Vec::iter().find(): the index of the first match, 0 for None
FindFirst(matches) == IF matches = {} THEN 0 ELSE Min(matches)

find_connection_by_id(id) ==
    FindFirst({i \in 1..Len(connections) : connections[i].peer = id})

find_connection_by_token(token) ==
    FindFirst({i \in 1..Len(connections) : connections[i].token = token})

find_connection_by_ip_addr(ip, port) ==
    FindFirst({i \in 1..Len(connections) :
                 connections[i].ip = ip /\ connections[i].port = port})

remove_connection(conns, token) ==
    LET Keep(c) == c.token # token IN SelectSeq(conns, Keep)

add_connection(conns, conn) ==
    LET i == FindFirst({j \in 1..Len(conns) : conns[j].token = conn.token})
    IN  IF i # 0 THEN [conns EXCEPT ![i] = conn] ELSE Append(conns, conn)

(***************************************************************************)
(* The unreachable set: addresses with the stamp of their insertion.       *)
(***************************************************************************)
unreachable_contains(addr) == \E u \in unreachable_nodes : u.addr = addr

unreachable_insert(addr) == unreachable_nodes \cup {[addr |-> addr, since |-> now]}

unreachable_cleanup(cutoff) == {u \in unreachable_nodes : u.since >= cutoff}

(***************************************************************************)
(* The ban list held in memory and its checks.                             *)
(***************************************************************************)
\* TlsServerPrivate::addr_is_banned: a peer built from the socket address
\* is looked up in banned_peers
addr_is_banned(addr) == BanIp(addr.ip) \in banned_peers

is_id_banned(id) == BanNodeId(id) \in banned_peers

TlsServerPrivate_ban_node(b) == banned_peers \cup {b}

TlsServerPrivate_unban_node(b) == banned_peers \ {b}

(***************************************************************************)
(* The persistent ban store (P2PNode, bans.rs).                            *)
(***************************************************************************)
store_put(b) == kvs \cup {BanIdSerial(b)}

\* a delete that leaves the key in place
store_delete_nothing(b) == kvs

store_delete(b) == kvs \ {BanIdSerial(b)}

is_banned(b) == BanIdSerial(b) \in kvs

get_banlist == {BanIdDeserial(k) : k \in kvs}

\* find_conn_by_id! / find_conns_by_ip!: the tokens of the matching connections
ban_targets(b) ==
    IF b.kind = "NodeId"
    THEN IF find_connection_by_id(b.val) = 0 THEN {}
         ELSE {connections[find_connection_by_id(b.val)].token}
    ELSE {connections[i].token : i \in {j \in 1..Len(connections) : connections[j].ip = b.val}}

\* register_conn_change(ConnChange::Removal(token)) for every token of toks
register_removals(conns, toks) ==
    [i \in 1..Len(conns) |->
        IF conns[i].token \in toks THEN [conns[i] EXCEPT !.closing = TRUE]
                                   ELSE conns[i]]

\* What the last operation was, what it returned, and the request it
\* broadcast to the peers ("None": nothing was broadcast).
Ret(op, result) == [op |-> op, result |-> result, bcast |-> "None"]


MAX_UNREACHABLE_MARK_TIME == 1000 * 60 * 60 * 24

TokenCap == FIRST_TOKEN + MaxTokens

\* a counter that hands out the same value again
fetch_same(n) == n

\* `Token(self.next_id.fetch_add(1, Ordering::SeqCst))`: the counter after
\* a token has been taken (the token is its value before)
fetch_add(n) == n + 1

(***************************************************************************)
(* TlsServer::accept.                                                      *)
(***************************************************************************)
\* the capacity check placed before the ban check
accept_admission_capacity_first(addr) ==
    IF self_type = "Node" /\ connections_count <= max_peers
    THEN "MaxmimumAmountOfPeers"
    ELSE IF addr_is_banned(addr) THEN "BannedNodeRequestedConnectionError"
         ELSE "Ok"

\* the pre-handshake validation (make_check_banned), then the capacity check
accept_admission(addr) ==
    IF addr_is_banned(addr) THEN "BannedNodeRequestedConnectionError"
    ELSE IF self_type = "Node" /\ connections_count <= max_peers
         THEN "MaxmimumAmountOfPeers"
         ELSE "Ok"

accept(addr, reg_ok) ==
    LET adm == accept_admission(addr)
        r == Ret("accept", adm)
    IN  /\ ~panicked
        /\ adm = "Ok" => next_id < TokenCap
        /\ IF adm # "Ok"
           THEN /\ ret' = r
                /\ UNCHANGED <<connections, next_id>>
           ELSE /\ next_id' = fetch_add(next_id)
                /\ connections' = add_connection(connections,
                        NewConnection(next_id, "Node", addr))
                \* the status of conn.register(poll) is returned after the
                \* connection has been added
                /\ ret' = Ret("accept", IF reg_ok THEN "Ok" ELSE "RegisterError")
        /\ UNCHANGED <<buckets, self_type, max_peers, no_trust_bans, banned_peers,
                       unreachable_nodes, to_disconnect, kvs, now, panicked,
                       bans_done>>

(***************************************************************************)
(* TlsServer::connect.                                                     *)
(***************************************************************************)
connect_admission(peer_type, addr, peer_id_opt) ==
    IF peer_type = "Node" /\ connections_count <= max_peers
    THEN "MaxmimumAmountOfPeers"
    ELSE IF peer_type = "Node" /\ unreachable_contains(addr)
    THEN "UnreachablePeerError"
    ELSE IF SelfAddr = addr
    THEN "DuplicatePeerError"
    ELSE IF peer_id_opt # 0 /\ find_connection_by_id(peer_id_opt) # 0
    THEN "DuplicatePeerError"
    ELSE IF find_connection_by_ip_addr(addr.ip, addr.port) # 0
    THEN "DuplicatePeerError"
    ELSE "Ok"

connect(peer_type, addr, peer_id_opt, tcp_ok, reg_ok) ==
    LET adm == connect_admission(peer_type, addr, peer_id_opt)
        r == Ret("connect", adm)
    IN  /\ ~panicked
        /\ (adm = "Ok" /\ tcp_ok) => next_id < TokenCap
        /\ IF adm # "Ok"
           THEN /\ ret' = r
                /\ UNCHANGED <<connections, next_id, unreachable_nodes>>
           ELSE IF tcp_ok
           THEN /\ next_id' = fetch_add(next_id)
                /\ IF reg_ok
                   THEN /\ connections' = add_connection(connections,
                                NewConnection(next_id, peer_type, addr))
                        /\ ret' = r
                   ELSE /\ connections' = connections
                        /\ ret' = Ret("connect", "RegisterError")
                /\ UNCHANGED unreachable_nodes
           ELSE /\ unreachable_nodes' =
                       IF peer_type = "Node" THEN unreachable_insert(addr)
                                             ELSE unreachable_nodes
                /\ ret' = Ret("connect", "IoError")
                /\ UNCHANGED <<connections, next_id>>
        /\ UNCHANGED <<buckets, self_type, max_peers, no_trust_bans, banned_peers,
                       to_disconnect, kvs, now, panicked, bans_done>>

(***************************************************************************)
(* The PeerList response in the message loop (cli.rs): the peers of the    *)
(* list are dialled one after the other; each turn of the loop is a step.  *)
(***************************************************************************)
\* get_peer_stats(&[]) filtered by peer type Node: the connections whose
\* peer is known and of type Node
node_peer_count ==
    Cardinality({i \in 1..Len(connections) :
                    connections[i].peer # 0 /\ connections[i].peer_type = "Node"})

\* `new_peers + peer_count as u8 >= desired_nodes`
target_met(new_peers, peer_count) ==
    (new_peers + (peer_count % 256)) % 256 >= peer_list.desired_nodes

\* the response arrives: new_peers = 0, peer_count is taken once
peer_list_received(peers) ==
    /\ ~panicked
    /\ peer_list.pc = "idle"
    /\ peer_list' = [peer_list EXCEPT
           !.pc = IF peers = <<>> THEN "idle" ELSE "dial",
           !.peers = peers, !.rest = peers,
           !.peer_count = node_peer_count, !.new_peers = 0, !.dialled = <<>>]
    /\ UNCHANGED serverVars

\* one turn of the loop: connect to the next peer of the list, count a
\* success, then compare with the target and leave the loop or go on
peer_list_dial(tcp_ok, reg_ok) ==
    /\ peer_list.pc = "dial"
    /\ connect("Node", Head(peer_list.rest).addr, Head(peer_list.rest).id, tcp_ok, reg_ok)
    /\ \E new_peers \in {peer_list.new_peers + (IF ret'.result = "Ok" THEN 1 ELSE 0)} :
          peer_list' = [peer_list EXCEPT
              !.new_peers = new_peers,
              !.rest = Tail(@),
              !.dialled = Append(@, [peer |-> Head(peer_list.rest),
                                     connected |-> peer_list.peer_count
                                                   + peer_list.new_peers]),
              !.pc = IF target_met(new_peers, peer_list.peer_count)
                        \/ Tail(peer_list.rest) = <<>>
                     THEN "idle" ELSE "dial"]

(***************************************************************************)
(* The Retransmit request in the message loop (cli.rs).  The elements the  *)
(* node has seen are stored with the stamp they were seen at; the request  *)
(* is recorded with the elements stored when it arrived, and the calls of  *)
(* send_direct_message the handler makes are recorded in `sent`.           *)
(***************************************************************************)
KnownElementTypes == {"Block", "FinalizationRecord", "Transaction"}

\* Cache::get_since: the stored elements of a type seen at or after `since`
get_since(element_type, since) ==
    LET Wanted(x) == x.element_type = element_type /\ x.seen_at >= since
    IN  SelectSeq(retransmit.stored, Wanted)

\* an element is seen and stored
store_element(element_type, seen_at, data) ==
    /\ Len(retransmit.stored) < MaxStored
    /\ retransmit' = [retransmit EXCEPT
           !.stored = Append(@, [element_type |-> element_type,
                                 seen_at |-> seen_at, data |-> data])]

\* the match arm of NetworkRequest::Retransmit
handle_retransmit(requester, element_type, since, nid) ==
    /\ retransmit' = [retransmit EXCEPT
           !.request = <<[requester |-> requester, element_type |-> element_type,
                          since |-> since, nid |-> nid,
                          stored |-> retransmit.stored]>>,
           !.sent = IF element_type = "Transaction"
                    THEN [k \in 1..Len(get_since("Transaction", since)) |->
                            [receiver |-> requester, network_id |-> nid,
                             message |-> get_since("Transaction", since)[k].data]]
                    ELSE <<>>]

(***************************************************************************)
(* The application handshake of a connection: the peer becomes known, and  *)
(* the server's default Handshake callback queues a banned id.             *)
(***************************************************************************)
\* the peer of a completed handshake enters the buckets; the token of its
\* connection is kept with it, for stating the properties
update_buckets(c, id) ==
    buckets \cup {[id |-> id, ip |-> c.ip, port |-> c.port, token |-> c.token]}

handshake_callback(id) ==
    IF is_id_banned(id) THEN Append(to_disconnect, id) ELSE to_disconnect

receive_handshake(i, id) ==
    /\ ~panicked
    /\ i \in 1..Len(connections)
    /\ connections[i].peer = 0
    /\ ~connections[i].closing
    /\ connections' = [connections EXCEPT ![i].peer = id]
    /\ buckets' = update_buckets(connections[i], id)
    /\ to_disconnect' = handshake_callback(id)
    /\ ret' = Ret("handshake", "Ok")
    /\ UNCHANGED <<self_type, max_peers, no_trust_bans, next_id, banned_peers,
                   unreachable_nodes, kvs, now, panicked, bans_done>>

\* send_ban / send_unban: the request handed to the peers
send_ban(b) == "BanNode"

send_unban(b) == "UnbanNode"

(***************************************************************************)
(* P2PNode::ban_node, unban_node, clear_bans (bans.rs).  A store operation *)
(* may fail (store_ok = FALSE); the error is returned at once by `?`.      *)
(* The ban is also applied to the server's list in memory                  *)
(* (TlsServer::ban_node), as load_bans does for the stored bans at start.  *)
(***************************************************************************)
ban_node(b, store_ok) ==
    /\ ~panicked
    /\ IF ~store_ok
       THEN /\ ret' = Ret("ban", "StoreError")
            /\ UNCHANGED <<kvs, banned_peers, connections, bans_done>>
       ELSE /\ kvs' = store_put(b)
            /\ banned_peers' = TlsServerPrivate_ban_node(b)
            /\ connections' = register_removals(connections, ban_targets(b))
            /\ ret' = [Ret("ban", "Ok") EXCEPT
                           !.bcast = IF no_trust_bans THEN "None" ELSE send_ban(b)]
            /\ bans_done' = bans_done \cup {b}
    /\ UNCHANGED <<buckets, self_type, max_peers, no_trust_bans, next_id,
                   unreachable_nodes, to_disconnect, now, panicked>>

\* utils::ban_node, called by the message loop for a BanNode request that
\* `peer` sent: the ban is applied by the node, which re-emits it
utils_ban_node(peer, peer_to_ban, store_ok) == ban_node(peer_to_ban, store_ok)

unban_node(b, store_ok) ==
    /\ ~panicked
    /\ IF ~store_ok
       THEN /\ ret' = Ret("unban", "StoreError")
            /\ UNCHANGED <<kvs, banned_peers, bans_done>>
       ELSE /\ kvs' = store_delete(b)
            /\ banned_peers' = TlsServerPrivate_unban_node(b)
            /\ ret' = [Ret("unban", "Ok") EXCEPT
                           !.bcast = IF no_trust_bans THEN "None" ELSE send_unban(b)]
            /\ bans_done' = bans_done \ {b}
    /\ UNCHANGED <<buckets, self_type, max_peers, no_trust_bans, connections, next_id,
                   unreachable_nodes, to_disconnect, now, panicked>>

clear_bans(store_ok) ==
    /\ ~panicked
    /\ IF ~store_ok
       THEN /\ ret' = Ret("clear", "StoreError")
            /\ UNCHANGED <<kvs, bans_done>>
       ELSE /\ kvs' = {}
            /\ ret' = Ret("clear", "Ok")
            /\ bans_done' = {}
    /\ UNCHANGED <<buckets, self_type, max_peers, no_trust_bans, connections, next_id,
                   banned_peers, unreachable_nodes, to_disconnect, now,
                   panicked>>

(***************************************************************************)
(* TlsServerPrivate::get_peer_stats(&[]): one entry for each connection    *)
(* whose peer is known, in the order of the registry.                      *)
(***************************************************************************)
has_peer(c) == c.peer # 0

\* a report of every connection of the registry
get_peer_stats_all ==
    [k \in 1..Len(connections) |->
        [id |-> connections[k].peer, ip |-> connections[k].ip,
         port |-> connections[k].port, token |-> connections[k].token]]

get_peer_stats ==
    LET with_peer == SelectSeq(connections, has_peer)
    IN  [k \in 1..Len(with_peer) |->
            [id |-> with_peer[k].peer, ip |-> with_peer[k].ip,
             port |-> with_peer[k].port, token |-> with_peer[k].token]]

(***************************************************************************)
(* TlsServerPrivate::conn_event: a readiness event of the connection with  *)
(* the event's token.  Connection::ready services the event; its outcome   *)
(* is an input: "Ok", "Closed" (the connection is closed afterwards and    *)
(* ready returns Ok) or "Err" (ready returns an error and has marked the   *)
(* connection closing).  An event served with "Ok" had a successful read,  *)
(* after which the connection updates its last_seen.                       *)
(***************************************************************************)
ReadyOutcomes == {"Ok", "Closed", "Err"}

\* ConnectionPrivate::update_last_seen: skipped in BootstrapperMode
update_last_seen(c) ==
    IF self_type # "Bootstrapper" THEN [c EXCEPT !.last_seen = now] ELSE c

Connection_ready(c, outcome) ==
    [conn   |-> IF outcome = "Err" THEN [c EXCEPT !.closing = TRUE]
                ELSE IF outcome = "Ok" THEN update_last_seen(c)
                ELSE c,
     result |-> IF outcome = "Err" THEN "Err" ELSE "Ok",
     closed |-> outcome = "Closed"]

conn_event(token, outcome) ==
    /\ ~panicked
    /\ \E i \in {find_connection_by_token(token)} :
          IF i = 0
          THEN /\ ret' = Ret("conn_event", "PeerNotFoundError")
               /\ UNCHANGED connections
          ELSE \E r \in {Connection_ready(connections[i], outcome)} :
                 IF r.result # "Ok"
                 THEN \* `conn.ready(..)?`: the error leaves conn_event here
                      /\ connections' = [connections EXCEPT ![i] = r.conn]
                      /\ ret' = Ret("conn_event", r.result)
                 ELSE /\ connections' =
                            IF r.closed THEN remove_connection(connections, token)
                            ELSE [connections EXCEPT ![i] = r.conn]
                      /\ ret' = Ret("conn_event", "Ok")
    /\ UNCHANGED <<buckets, self_type, max_peers, no_trust_bans, next_id, banned_peers,
                   unreachable_nodes, to_disconnect, kvs, now, panicked,
                   bans_done>>

\* nobody holds the lock of dptr, no I/O is going on
DptrFree == [writer |-> "none", io |-> "none", token |-> 0]

(***************************************************************************)
(* TlsServer::conn_event and TlsServer::send_over_all_connections: each    *)
(* takes the write lock of dptr and calls the method of TlsServerPrivate   *)
(* on the guard, which lives until the call has returned.  The first step  *)
(* takes the lock and enters the I/O of the call (Connection::ready, or    *)
(* Connection::serialize_bytes for the connections the filter lets         *)
(* through); the second is the rest of the call and the release.           *)
(***************************************************************************)
lock_conn_event(token) ==
    /\ ~panicked
    /\ dptr.writer = "none"
    /\ find_connection_by_token(token) # 0
    /\ dptr' = [writer |-> "conn_event", io |-> "ready", token |-> token]
    /\ UNCHANGED <<serverVars, threads>>

finish_conn_event(outcome) ==
    /\ dptr.writer = "conn_event"
    /\ conn_event(dptr.token, outcome)
    /\ dptr' = DptrFree
    /\ UNCHANGED threads

lock_send_over_all_connections ==
    /\ ~panicked
    /\ dptr.writer = "none"
    /\ connections # <<>>
    /\ dptr' = [writer |-> "send_over_all_connections", io |-> "serialize_bytes",
                token |-> connections[1].token]
    /\ UNCHANGED <<serverVars, threads>>

finish_send_over_all_connections ==
    /\ dptr.writer = "send_over_all_connections"
    /\ dptr' = DptrFree
    /\ UNCHANGED <<serverVars, threads>>

(***************************************************************************)
(* The node's thread: it relays messages to the packet queue, and on       *)
(* shutdown it exits, leaving a stop value on the queue of its consumer.   *)
(***************************************************************************)
node_relay ==
    /\ threads.node = "running"
    /\ threads.relayed < MaxRelays
    /\ threads' = [threads EXCEPT !.pkt = Append(@, "Relay"), !.relayed = @ + 1]

node_exit ==
    /\ threads.node = "running"
    /\ threads' = [threads EXCEPT !.node = "exited", !.pkt = Append(@, "Stop")]

\* the consensus layer hands a message to the callback queue
consensus_callback ==
    /\ threads.consensus
    /\ threads.main \in {"join_node", "send_stop", "stop_consensus"}
    /\ threads.relayed < MaxRelays
    /\ threads' = [threads EXCEPT !.callback = Append(@, "Relay"), !.relayed = @ + 1]

\* "Process global state requests": recv on the skov queue; Stop breaks
global_state_thread ==
    /\ threads.global_state = "running"
    /\ threads.skov # <<>>
    /\ threads' = [threads EXCEPT
           !.skov = Tail(@),
           !.global_state = IF Head(threads.skov) = "Stop" THEN "stopped" ELSE @]

\* "Higher queue processing": `while let Ok(Relay(full_msg)) = pkt_out.recv()`
guard_pkt ==
    /\ threads.guard_pkt = "running"
    /\ threads.pkt # <<>>
    /\ threads' = [threads EXCEPT
           !.pkt = Tail(@),
           !.guard_pkt = IF Head(threads.pkt) = "Relay" THEN @ ELSE "stopped"]

\* start_baker_thread: recv on the callback queue; a message is passed on
\* to the skov queue (an error of the send is logged), Stop breaks
start_baker_thread ==
    /\ threads.baker = "running"
    /\ threads.callback # <<>>
    /\ threads' = [threads EXCEPT
           !.callback = Tail(@),
           !.skov = IF Head(threads.callback) = "Relay"
                       /\ threads.global_state = "running"
                    THEN Append(@, "Relay") ELSE @,
           !.baker = IF Head(threads.callback) = "Stop" THEN "stopped" ELSE @]

\* ConsensusContainer::stop_baker: the callback queue is given its stop value
stop_baker(callback) == Append(callback, "Stop")

\* the shutdown sequence of main, one statement a step
main ==
    \/ /\ threads.main = "join_node"
       /\ threads.node = "exited"
       /\ threads' = [threads EXCEPT !.main = "send_stop"]
    \/ /\ threads.main = "send_stop"
       /\ threads' = [threads EXCEPT !.skov = Append(@, "Stop"),
                                     !.main = "stop_consensus"]
    \/ /\ threads.main = "stop_consensus"
       /\ threads' = [threads EXCEPT
              !.callback = IF threads.consensus /\ threads.is_baker
                           THEN stop_baker(@) ELSE @,
              !.main = "join_global_state"]
    \/ /\ threads.main = "join_global_state"
       /\ threads.global_state \in {"stopped", "none"}
       /\ threads' = [threads EXCEPT !.main = "join_guard_pkt"]
    \/ /\ threads.main = "join_guard_pkt"
       /\ threads.guard_pkt \in {"stopped", "none"}
       /\ threads' = [threads EXCEPT !.main = "join_baker"]
    \/ /\ threads.main = "join_baker"
       /\ threads.baker \in {"stopped", "none"}
       /\ threads' = [threads EXCEPT !.main = "returned"]

(***************************************************************************)
(* TlsServer::add_network and remove_network, which take the write lock    *)
(* and call the operation of TlsServerPrivate on the network list.         *)
(***************************************************************************)
\* Vec/HashSet::retain(keep): the elements for which keep holds stay
remove_network(network_id) ==
    /\ ~panicked
    /\ networks' = {x \in networks : x = network_id}
    /\ ret' = Ret("remove_network", "Ok")
    /\ UNCHANGED <<buckets, self_type, max_peers, no_trust_bans, connections, next_id,
                   banned_peers, unreachable_nodes, to_disconnect, kvs, now, panicked,
                   bans_done>>

add_network(network_id) ==
    /\ ~panicked
    /\ networks' = networks \cup {network_id}
    /\ ret' = Ret("add_network", "Ok")
    /\ UNCHANGED <<buckets, self_type, max_peers, no_trust_bans, connections, next_id,
                   banned_peers, unreachable_nodes, to_disconnect, kvs, now, panicked,
                   bans_done>>

(***************************************************************************)
(* The packet budget of a connection: failed_pkts counts the packets of    *)
(* the connection that failed to be processed.  One readiness event drains *)
(* every frame that has arrived, so n packets can fail in one event.       *)
(***************************************************************************)
fail_packets(token, n) ==
    /\ ~panicked
    /\ \E i \in {find_connection_by_token(token)} :
          /\ i # 0
          /\ connections[i].failed_pkts + n <= MaxFailed
          /\ connections' = [connections EXCEPT ![i].failed_pkts = @ + n]
    /\ ret' = Ret("fail_packets", "Ok")
    /\ UNCHANGED <<buckets, self_type, max_peers, no_trust_bans, next_id, banned_peers,
                   unreachable_nodes, to_disconnect, kvs, now, panicked,
                   bans_done>>

(***************************************************************************)
(* TlsServerPrivate::cleanup_connections.  Each close is preceded by a     *)
(* panic!, so a pass that finds a connection to close panics there.        *)
(***************************************************************************)
timed_out(c) ==
    IF self_type = "Bootstrapper"
    THEN c.last_seen + MAX_BOOTSTRAPPER_KEEP_ALIVE < now
    ELSE \/ (c.last_seen + MAX_NORMAL_KEEP_ALIVE < now /\ c.peer_type = "Node")
         \/ c.failed_pkts >= MAX_FAILED_PACKETS_ALLOWED

banned_connected ==
    \E b \in banned_peers : b.kind = "NodeId" /\ find_connection_by_id(b.val) # 0

not_closing(c) == ~c.closing

cleanup_connections ==
    LET swept == IF self_type = "Bootstrapper" THEN unreachable_nodes
                 ELSE unreachable_cleanup(now - MAX_UNREACHABLE_MARK_TIME)
    IN  /\ ~panicked
        /\ IF \E i \in 1..Len(connections) : timed_out(connections[i])
           THEN /\ panicked' = TRUE
                /\ ret' = Ret("cleanup", "panic")
                /\ UNCHANGED <<connections, unreachable_nodes>>
           ELSE IF banned_connected
           THEN /\ panicked' = TRUE
                /\ unreachable_nodes' = swept
                /\ ret' = Ret("cleanup", "panic")
                /\ UNCHANGED connections
           ELSE /\ connections' = SelectSeq(connections, not_closing)
                /\ unreachable_nodes' = swept
                /\ ret' = Ret("cleanup", "Ok")
                /\ UNCHANGED panicked
        /\ UNCHANGED <<buckets, self_type, max_peers, no_trust_bans, next_id,
                       banned_peers, to_disconnect, kvs, now, bans_done>>

(***************************************************************************)
(* get_current_stamp: the clock of the node, in milliseconds.  The stamps  *)
(* of the model lie around the keep-alive limits and the unreachable mark  *)
(* time.                                                                   *)
(***************************************************************************)
Stamps ==
    {MAX_BOOTSTRAPPER_KEEP_ALIVE, MAX_BOOTSTRAPPER_KEEP_ALIVE + 1,
     MAX_NORMAL_KEEP_ALIVE, MAX_NORMAL_KEEP_ALIVE + 1,
     MAX_UNREACHABLE_MARK_TIME, MAX_UNREACHABLE_MARK_TIME + 1}

Tick(stamp) ==
    /\ ~panicked
    /\ now < stamp
    /\ now' = stamp
    /\ UNCHANGED <<buckets, self_type, max_peers, no_trust_bans, connections, next_id,
                   banned_peers, unreachable_nodes, to_disconnect, kvs, panicked,
                   ret, bans_done>>

(***************************************************************************)
(* A restart of the node: only the ban store survives; main loads the      *)
(* stored bans into the new server (load_bans).                            *)
(***************************************************************************)
load_bans == get_banlist

Restart ==
    /\ connections' = <<>>
    /\ next_id' = FIRST_TOKEN
    /\ banned_peers' = load_bans
    /\ unreachable_nodes' = {}
    /\ to_disconnect' = <<>>
    /\ panicked' = FALSE
    /\ ret' = Ret("restart", "Ok")
    /\ buckets' = {}
    /\ UNCHANGED <<self_type, max_peers, no_trust_bans, kvs, now, bans_done>>

(***************************************************************************)
(* The size limits of the codec (low_level.rs, noiseexplorer_xx::consts).  *)
(***************************************************************************)
RealLimits ==
    [max_message_len |-> NOISE_MAX_MESSAGE_LEN, auth_tag_len |-> NOISE_AUTH_TAG_LEN,
     mac_length |-> MAC_LENGTH, dhlen |-> DHLEN]

ScaledLimits ==
    [max_message_len |-> MaxMessageLen, auth_tag_len |-> MacLen,
     mac_length |-> MacLen, dhlen |-> DhLen]

Min2(a, b) == IF a < b THEN a ELSE b

RECURSIVE SumSeq(_)
SumSeq(s) == IF s = <<>> THEN 0 ELSE Head(s) + SumSeq(Tail(s))

Zeros(n) == [i \in 1..n |-> 0]

(***************************************************************************)
(* The chunking rule, on lengths.                                          *)
(***************************************************************************)
\* a payload limit that leaves no room for the tag
noise_max_payload_len_untagged == lim.max_message_len

\* NOISE_MAX_PAYLOAD_LEN under the limits in force
noise_max_payload_len == lim.max_message_len - lim.auth_tag_len

\* encrypt_chunks: the size of the next chunk of an input with `remaining` bytes left
next_chunk_size(remaining) == Min2(noise_max_payload_len, remaining)

\* encrypt_chunks: the sealed length of a chunk
encrypted_len(chunk_size) == chunk_size + lim.mac_length

\* encrypt_chunks: the sealed lengths of the chunks of an input of input_len bytes
RECURSIVE encrypted_lens(_)
encrypted_lens(input_len) ==
    IF input_len = 0 THEN <<>>
    ELSE <<encrypted_len(next_chunk_size(input_len))>>
         \o encrypted_lens(input_len - next_chunk_size(input_len))

\* a receiver that cuts at the plaintext limit
decrypt_chunk_lens_payload(len) ==
    LET num_full_chunks == len \div noise_max_payload_len
        last_chunk_size == len % noise_max_payload_len
    IN  [i \in 1..num_full_chunks |-> noise_max_payload_len]
        \o (IF last_chunk_size > 0 THEN <<last_chunk_size>> ELSE <<>>)

\* decrypt: the lengths of the chunks the receiver cuts len bytes into
decrypt_chunk_lens(len) ==
    LET num_full_chunks == len \div lim.max_message_len
        last_chunk_size == len % lim.max_message_len
    IN  [i \in 1..num_full_chunks |-> lim.max_message_len]
        \o (IF last_chunk_size > 0 THEN <<last_chunk_size>> ELSE <<>>)

(***************************************************************************)
(* The Noise XX session (noiseexplorer_xx): a message counter, and after   *)
(* the three handshake messages one cipher state per direction, each with  *)
(* its nonce.  Sealing shifts every byte by key and nonce and appends a    *)
(* tag over the plaintext; opening verifies the tag.                       *)
(***************************************************************************)
Ends == {"initiator", "responder"}

Other(e) == IF e = "initiator" THEN "responder" ELSE "initiator"

HS_MARK == 201

TxKey(is_initiator) == IF is_initiator THEN 1 ELSE 2

RxKey(is_initiator) == TxKey(~is_initiator)

Digest(plain) == SumSeq([i \in 1..Len(plain) |-> i * plain[i]])

Tag(plain, key, nonce) ==
    [j \in 1..lim.mac_length |-> (Digest(plain) + key + nonce + j) % 256]

Seal(plain, key, nonce) ==
    [i \in 1..Len(plain) |-> (plain[i] + key + nonce) % 256] \o Tag(plain, key, nonce)

Open(sealed, key, nonce) ==
    LET n == Len(sealed) - lim.mac_length
        plain == [i \in 1..n |-> (sealed[i] + 512 - key - nonce) % 256]
    IN  IF n >= 0 /\ SubSeq(sealed, n + 1, Len(sealed)) = Tag(plain, key, nonce)
        THEN [ok |-> TRUE, plain |-> plain]
        ELSE [ok |-> FALSE, plain |-> <<>>]

NoiseSession == [mc |-> 0, n_send |-> 0, n_recv |-> 0]

\* NoiseSession::send_message on the buffer buf: a handshake message while
\* mc < 3, the sealed plaintext (the buffer without its tag room) afterwards
send_message(c, buf) ==
    LET s == c.noise_session
    IN  IF s.mc < 3
        THEN [c |-> [c EXCEPT !.noise_session.mc = @ + 1],
              out |-> [i \in 1..Len(buf) |-> HS_MARK + s.mc]]
        ELSE [c |-> [c EXCEPT !.noise_session.mc = @ + 1,
                              !.noise_session.n_send = @ + 1],
              out |-> Seal(SubSeq(buf, 1, Len(buf) - lim.mac_length),
                           TxKey(c.is_initiator), s.n_send)]

\* NoiseSession::recv_message
recv_message(c, msg) ==
    LET s == c.noise_session
        o == Open(msg, RxKey(c.is_initiator), s.n_recv)
    IN  IF s.mc < 3
        THEN IF msg # <<>> /\ \A i \in 1..Len(msg) : msg[i] = HS_MARK + s.mc
             THEN [ok |-> TRUE, c |-> [c EXCEPT !.noise_session.mc = @ + 1],
                   out |-> <<>>]
             ELSE [ok |-> FALSE, c |-> c, out |-> <<>>]
        ELSE IF o.ok
             THEN [ok |-> TRUE,
                   c |-> [c EXCEPT !.noise_session.mc = @ + 1,
                                   !.noise_session.n_recv = @ + 1],
                   out |-> o.plain]
             ELSE [ok |-> FALSE, c |-> c, out |-> <<>>]

(***************************************************************************)
(* ConnectionLowLevel (connection/low_level.rs).                           *)
(***************************************************************************)
ConnectionLowLevel(is_initiator) ==
    [is_initiator |-> is_initiator,
     noise_session |-> NoiseSession,
     incoming_msg |-> [pending_bytes |-> 0, message |-> <<>>],
     output_queue |-> <<>>]

Cursor(data) == [data |-> data, pos |-> 0]

create_frame(data) == Cursor(U32BE(Len(data)) \o data)

Ok(c) == [c |-> c, err |-> "None"]

Err(c, e) == [c |-> c, err |-> e]

push_back(c, cursor) == [c EXCEPT !.output_queue = Append(@, cursor)]

RECURSIVE encrypt_chunks(_, _)
encrypt_chunks(c, input) ==
    IF input = <<>> THEN [c |-> c, chunks |-> <<>>, written |-> 0]
    ELSE LET chunk_size == next_chunk_size(Len(input))
             snd == send_message(c, SubSeq(input, 1, chunk_size)
                                    \o Zeros(encrypted_len(chunk_size) - chunk_size))
             rest == encrypt_chunks(snd.c, SubSeq(input, chunk_size + 1, Len(input)))
         IN  [c |-> rest.c, chunks |-> <<Cursor(snd.out)>> \o rest.chunks,
              written |-> Len(snd.out) + rest.written]

\* the metadata chunk with the total sealed length, then the sealed chunks
encrypt(c, input) ==
    LET r == encrypt_chunks(c, input)
    IN  [c |-> r.c, chunks |-> <<Cursor(U32BE(r.written))>> \o r.chunks]

write_to_socket(c, input) ==
    LET e == encrypt(c, input)
    IN  [e.c EXCEPT !.output_queue = @ \o e.chunks]

\* Connection::send_handshake_request: the application handshake request
HANDSHAKE_REQUEST == <<72>>

send_handshake_request(c) == write_to_socket(c, HANDSHAKE_REQUEST)

initiator_send_message_a(c) ==
    LET snd == send_message(c, Zeros(lim.dhlen + lim.mac_length))
    IN  push_back(snd.c, create_frame(snd.out))

responder_got_message_a(c, input) ==
    LET rcv == recv_message(c, input)
        snd == send_message(rcv.c, Zeros(lim.dhlen * 2 + lim.mac_length * 2))
    IN  IF ~rcv.ok THEN Err(c, "NoiseError")
        ELSE Ok(push_back(snd.c, create_frame(snd.out)))

initiator_got_message_b(c, input) ==
    LET rcv == recv_message(c, input)
        snd == send_message(rcv.c, Zeros(lim.dhlen + lim.mac_length * 2))
    IN  IF ~rcv.ok THEN Err(c, "NoiseError")
        ELSE Ok(push_back(snd.c, create_frame(snd.out)))

responder_got_message_c(c, input) ==
    LET rcv == recv_message(c, input)
    IN  IF ~rcv.ok THEN Err(c, "NoiseError")
        ELSE Ok(send_handshake_request(rcv.c))

\* one threshold for both roles
is_post_handshake_either(c) == c.noise_session.mc > 1

is_post_handshake(c) ==
    IF c.is_initiator THEN c.noise_session.mc > 1 ELSE c.noise_session.mc > 2

RECURSIVE decrypt_chunks(_, _, _)
decrypt_chunks(c, input, sizes) ==
    IF sizes = <<>> THEN [c |-> c, out |-> <<>>, err |-> "None"]
    ELSE LET rcv == recv_message(c, SubSeq(input, 1, Head(sizes)))
             rest == decrypt_chunks(rcv.c, SubSeq(input, Head(sizes) + 1, Len(input)),
                                    Tail(sizes))
         IN  IF ~rcv.ok THEN [c |-> c, out |-> <<>>, err |-> "DecryptionError"]
             ELSE [c |-> rest.c, out |-> rcv.out \o rest.out, err |-> rest.err]

decrypt(c, input, len) ==
    LET r == decrypt_chunks(c, input, decrypt_chunk_lens(len))
    IN  IF r.err # "None" THEN Err(r.c, r.err)
        ELSE Ok([r.c EXCEPT !.incoming_msg.message = r.out])

\* the arm forward takes: a handshake frame A, B or C, or "data"
forward_arm(c) ==
    LET mc == c.noise_session.mc
    IN  IF mc = 0 /\ ~c.is_initiator THEN "A"
        ELSE IF mc = 1 /\ c.is_initiator THEN "B"
        ELSE IF mc = 2 /\ ~c.is_initiator THEN "C"
        ELSE "data"

forward(c, input, len) ==
    CASE forward_arm(c) = "A" -> responder_got_message_a(c, input)
      [] forward_arm(c) = "B" -> initiator_got_message_b(c, input)
      [] forward_arm(c) = "C" -> responder_got_message_c(c, input)
      [] OTHER -> decrypt(c, input, len)

(***************************************************************************)
(* Reading.  One step is one socket read that returned `bytes`, followed   *)
(* by everything read_from_socket does before its next socket read.  A     *)
(* read that would block changes nothing (Aborted, or Incomplete from      *)
(* read_payload), so the reads of a frame may be split in any way.         *)
(***************************************************************************)
ReadResult(c, result, msg, err, kind) ==
    [c |-> c, result |-> result, msg |-> msg, err |-> err, kind |-> kind]

\* read_from_socket on a complete frame: forward, then Complete with the
\* buffer of incoming_msg when the session is post-handshake, else Discarded
complete_frame(c, payload) ==
    LET f == forward(c, payload, Len(payload))
    IN  IF f.err # "None"
        THEN ReadResult(f.c, "Err", <<>>, f.err, forward_arm(c))
        ELSE IF is_post_handshake(f.c)
        THEN ReadResult([f.c EXCEPT !.incoming_msg.message = <<>>], "Complete",
                        f.c.incoming_msg.message, "None", forward_arm(c))
        ELSE ReadResult(f.c, "Discarded", <<>>, "None", forward_arm(c))

\* read_intermediate with the bytes read, then the end of read_payload
read_payload(c, bytes) ==
    LET c1 == [c EXCEPT !.incoming_msg.message = @ \o bytes,
                        !.incoming_msg.pending_bytes = @ - Len(bytes)]
    IN  IF c1.incoming_msg.pending_bytes = 0
        THEN complete_frame([c1 EXCEPT !.incoming_msg.message = <<>>],
                            c1.incoming_msg.message)
        ELSE ReadResult(c1, "Incomplete", <<>>, "None", "none")

pending_bytes_to_know_expected_size(c) ==
    IF Len(c.incoming_msg.message) < 4 THEN 4 - Len(c.incoming_msg.message) ELSE 0

\* a ceiling that excludes its own value
too_big_inclusive(expected_size) == expected_size >= PROTOCOL_MAX_MESSAGE_SIZE

\* the size limit of a frame
too_big(expected_size) == expected_size > PROTOCOL_MAX_MESSAGE_SIZE

read_expected_size(c, bytes) ==
    LET c1 == [c EXCEPT !.incoming_msg.message = @ \o bytes]
        expected_size == ReadU32BE(c1.incoming_msg.message)
        c2 == [c1 EXCEPT !.incoming_msg.pending_bytes = expected_size,
                         !.incoming_msg.message = <<>>]
    IN  IF Len(c1.incoming_msg.message) = 4
        THEN IF too_big(expected_size)
             THEN ReadResult(c1, "Err", <<>>, "MessageTooBigError", "none")
             ELSE IF expected_size = 0
             THEN read_payload(c2, <<>>)
             ELSE ReadResult(c2, "Incomplete", <<>>, "None", "none")
        ELSE ReadResult(c1, "Incomplete", <<>>, "None", "none")

\* a buffer for the payload that is not cut to the bytes still pending
read_size_uncapped(c) ==
    IF c.incoming_msg.pending_bytes = 0
    THEN pending_bytes_to_know_expected_size(c)
    ELSE lim.max_message_len

\* the size of the buffer handed to the next socket read
read_size(c) ==
    IF c.incoming_msg.pending_bytes = 0
    THEN pending_bytes_to_know_expected_size(c)
    ELSE Min2(c.incoming_msg.pending_bytes, lim.max_message_len)

read_from_socket(c, bytes) ==
    IF c.incoming_msg.pending_bytes = 0 THEN read_expected_size(c, bytes)
                                        ELSE read_payload(c, bytes)

\* the bytes of a queue of cursors, in order
RECURSIVE Flat(_)
Flat(queue) == IF queue = <<>> THEN <<>> ELSE Head(queue).data \o Flat(Tail(queue))

\* the bytes of the cursors that c has pushed to the queue of the end e
Pushed(e, c) ==
    Flat(SubSeq(c.output_queue, Len(ll[e].output_queue) + 1, Len(c.output_queue)))

\* read_stream, one socket read at a time; a Complete message goes to
\* process_message, which the history `frames` records
read_stream(e, k) ==
    /\ conn_err[e] = "None"
    /\ k \in 1..Min2(Len(socket[e]), read_size(ll[e]))
    /\ \E r \in {read_from_socket(ll[e], SubSeq(socket[e], 1, k))} :
        /\ ll' = [ll EXCEPT ![e] = r.c]
        /\ socket' = [socket EXCEPT ![e] = SubSeq(@, k + 1, Len(@))]
        /\ conn_err' = [conn_err EXCEPT ![e] = r.err]
        /\ frames' = IF r.result \in {"Complete", "Discarded"}
                     THEN [frames EXCEPT ![e] = Append(@,
                              [kind |-> r.kind, result |-> r.result, msg |-> r.msg])]
                     ELSE frames
        /\ app_sent' = IF r.kind = "C" /\ r.err = "None"
                       THEN [app_sent EXCEPT ![e] = Append(@, HANDSHAKE_REQUEST)]
                       ELSE app_sent
        /\ queued' = [queued EXCEPT ![e] = @ \o Pushed(e, r.c)]
        /\ read_ret' = [read_ret EXCEPT ![e] = [read |-> "bytes", result |-> r.result]]
    /\ UNCHANGED <<lim, accepted, injected>>

\* read_stream when the peer has closed the stream: every byte sent has
\* been read and the socket read returns 0 bytes
read_eof(e) ==
    /\ conn_err[e] = "None"
    /\ socket[e] = <<>>
    /\ \E r \in {read_from_socket(ll[e], <<>>)} :
        /\ ll' = [ll EXCEPT ![e] = r.c]
        /\ conn_err' = [conn_err EXCEPT ![e] = r.err]
        /\ read_ret' = [read_ret EXCEPT ![e] = [read |-> "eof", result |-> r.result]]
    /\ UNCHANGED <<lim, socket, frames, app_sent, queued, accepted, injected>>

(***************************************************************************)
(* Writing.  One step of flush_socket is one socket write of partial_copy  *)
(* that took k bytes of the front message; k = 0 is a write that would     *)
(* block, which leaves the message at the front with its position.         *)
(***************************************************************************)
\* partial_copy: the chunk offered to the socket
copy_chunk_size(message) == Min2(lim.max_message_len, Len(message.data) - message.pos)

\* an unfinished message put behind the others
requeue_back(rest, message) ==
    IF message.pos = Len(message.data) THEN rest ELSE rest \o <<message>>

\* flush_socket after partial_copy: a finished message is dropped, an
\* unfinished one goes back to the front of the queue
requeue(rest, message) ==
    IF message.pos = Len(message.data) THEN rest ELSE <<message>> \o rest

flush_socket(e, k) ==
    LET message == Head(ll[e].output_queue)
        moved == [message EXCEPT !.pos = @ + k]
    IN  /\ conn_err[e] = "None"
        /\ ll[e].output_queue # <<>>
        /\ k \in 0..copy_chunk_size(message)
        /\ socket' = [socket EXCEPT ![Other(e)] =
                          @ \o SubSeq(message.data, message.pos + 1, message.pos + k)]
        /\ ll' = [ll EXCEPT ![e].output_queue = requeue(Tail(@), moved)]
        /\ accepted' = [accepted EXCEPT ![e] =
                            @ \o SubSeq(message.data, message.pos + 1, message.pos + k)]
        /\ UNCHANGED <<lim, conn_err, frames, app_sent, queued, read_ret, injected>>

(***************************************************************************)
(* flush_socket and partial_copy loop by loop.  pc is "flush" at the top   *)
(* of the while loop of flush_socket, "copy" at the top of the while loop  *)
(* of partial_copy, "returned" when flush_socket has returned.  The socket *)
(* write of an iteration is an input: Ok(k) for a k from 0 to the chunk    *)
(* offered, WouldBlock, or another error.                                  *)
(***************************************************************************)
WriteOutcomes == {"Ok", "WouldBlock", "Error"}

\* what the last socket write returned
Wrote(kind, n) == [kind |-> kind, n |-> n]

\* messages are pushed to the output queue while flush_socket is not running
push_frames(queue) ==
    /\ flush_io.pc = "idle"
    /\ flush_io' = [flush_io EXCEPT !.output_queue = queue]

\* flush_socket is called
call_flush_socket ==
    /\ flush_io.pc \in {"idle", "returned"}
    /\ flush_io.result # "Err"
    /\ flush_io' = [flush_io EXCEPT !.pc = "flush", !.wrote = Wrote("none", 0), !.result = "none"]

\* `while let Some(mut message) = self.output_queue.pop_front()`
flush_socket_pop ==
    /\ flush_io.pc = "flush"
    /\ flush_io' =
          IF flush_io.output_queue = <<>>
          THEN [flush_io EXCEPT !.pc = "returned", !.result = "Complete"]
          ELSE [flush_io EXCEPT !.pc = "copy", !.message = Head(flush_io.output_queue),
                                !.output_queue = Tail(@)]

\* one pass through the while loop of partial_copy, and what flush_socket
\* does when partial_copy returns
partial_copy(outcome, k) ==
    LET message == flush_io.message
    IN  /\ flush_io.pc = "copy"
        /\ k \in 0..copy_chunk_size(message)
        /\ flush_io' =
              IF message.pos = Len(message.data)
              THEN \* the loop ends; the message was written completely
                   [flush_io EXCEPT !.pc = "flush"]
              ELSE IF outcome = "Ok"
              THEN [flush_io EXCEPT !.message.pos = @ + k, !.wrote = Wrote("Ok", k)]
              ELSE IF outcome = "WouldBlock"
              THEN \* break; flush_socket requeues the message at the front
                   [flush_io EXCEPT !.pc = "returned", !.wrote = Wrote("WouldBlock", 0),
                                    !.output_queue = requeue(@, message),
                                    !.result = "Incomplete"]
              ELSE [flush_io EXCEPT !.pc = "returned", !.wrote = Wrote("Error", 0),
                                    !.result = "Err"]

\* the connection is made: the initiator sends message A
send_message_a ==
    /\ conn_err["initiator"] = "None"
    /\ ll["initiator"].noise_session.mc = 0
    /\ ll' = [ll EXCEPT !["initiator"] = initiator_send_message_a(@)]
    /\ queued' = [queued EXCEPT !["initiator"] =
                      @ \o Pushed("initiator", initiator_send_message_a(ll["initiator"]))]
    /\ UNCHANGED <<lim, socket, conn_err, frames, app_sent, accepted, read_ret, injected>>

\* the payloads of the model: the n bytes of the j-th payload written at e
Payload(e, j, n) ==
    [i \in 1..n |-> (IF e = "initiator" THEN 10 ELSE 130) + 16 * j + i]

\* the payloads written so far, the responder's handshake request apart
app_writes ==
    Len(app_sent["initiator"]) + Len(app_sent["responder"])
    - (IF is_post_handshake(ll["responder"]) THEN 1 ELSE 0)

\* write_to_socket of a payload of n bytes on a post-handshake connection
send_payload(e, n) ==
    /\ conn_err[e] = "None"
    /\ is_post_handshake(ll[e])
    /\ app_writes < MaxWrites
    /\ ll' = [ll EXCEPT ![e] = write_to_socket(@, Payload(e, Len(app_sent[e]), n))]
    /\ app_sent' = [app_sent EXCEPT ![e] = Append(@, Payload(e, Len(app_sent[e]), n))]
    /\ queued' = [queued EXCEPT ![e] =
                      @ \o Pushed(e, write_to_socket(ll[e], Payload(e, Len(app_sent[e]), n)))]
    /\ UNCHANGED <<lim, socket, conn_err, frames, accepted, read_ret, injected>>

\* Connection::serialize_bytes as TlsServer::connect calls it for the
\* handshake request, right after the connection is registered, and as
\* send_over_all_connections calls it: the bytes go to write_to_socket,
\* which does not look at the state of the session
serialize_bytes(e, n) ==
    /\ conn_err[e] = "None"
    /\ app_writes < MaxWrites
    /\ ll' = [ll EXCEPT ![e] = write_to_socket(@, Payload(e, Len(app_sent[e]), n))]
    /\ app_sent' = [app_sent EXCEPT ![e] = Append(@, Payload(e, Len(app_sent[e]), n))]
    /\ queued' = [queued EXCEPT ![e] =
                      @ \o Pushed(e, write_to_socket(ll[e], Payload(e, Len(app_sent[e]), n)))]
    /\ UNCHANGED <<lim, socket, conn_err, frames, accepted, read_ret, injected>>

\* a peer that does not run the codec writes the byte b to the socket of e
inject(e, b) ==
    /\ conn_err[e] = "None"
    /\ injected < MaxWire
    /\ socket' = [socket EXCEPT ![e] = Append(@, b)]
    /\ injected' = injected + 1
    /\ UNCHANGED <<lim, ll, conn_err, frames, app_sent, queued, accepted, read_ret>>

(***************************************************************************)
(* The chunking rule applied to payload lengths, under the real limits.    *)
(***************************************************************************)
MaxChunks == 3
ChunkDelta == 17

ChunkLens ==
    {n \in {k * NOISE_MAX_PAYLOAD_LEN + d : k \in 0..MaxChunks, d \in (0 - ChunkDelta)..ChunkDelta}
           \cup {k * NOISE_MAX_MESSAGE_LEN + d : k \in 0..MaxChunks, d \in (0 - ChunkDelta)..ChunkDelta}
       : n >= 0}

seal_lens ==
    /\ chunk_pc = "input"
    /\ sealed_lens' = encrypted_lens(plain_len)
    /\ chunk_pc' = "sealed"
    /\ UNCHANGED <<lim, plain_len, cut_lens>>

cut_chunks ==
    /\ chunk_pc = "sealed"
    /\ cut_lens' = decrypt_chunk_lens(SumSeq(sealed_lens))
    /\ chunk_pc' = "cut"
    /\ UNCHANGED <<lim, plain_len, sealed_lens>>

next_payload ==
    /\ chunk_pc = "cut"
    /\ plain_len' \in ChunkLens
    /\ sealed_lens' = <<>>
    /\ cut_lens' = <<>>
    /\ chunk_pc' = "input"
    /\ UNCHANGED lim

(***************************************************************************)
(* The packet router (network/packet.rs, and the routing rules of the      *)
(* router).  A few nodes, each with its dedup queue; the packets travel    *)
(* from node to node over the links, in order on each link.                *)
(***************************************************************************)
RouterNodes == {1, 2, 3}

Networks == {100, 200}

RouterPayloads == {<<120>>, <<121>>}

DirectMessage(receiver) == [kind |-> "Direct", receiver |-> receiver, excluded |-> <<>>]

BroadcastedMessage(excluded) == [kind |-> "Broadcast", receiver |-> 0, excluded |-> excluded]

\* ProtocolPacketType as a byte
protocol_packet_type(packet_type) == IF packet_type.kind = "Direct" THEN 0 ELSE 1

\* impl Serial for NetworkPacketType: serial writes the type byte, and the
\* receiver of a direct message; it writes nothing more for a broadcast
NetworkPacketType_serial(packet_type) ==
    <<protocol_packet_type(packet_type)>>
    \o (IF packet_type.kind = "Direct" THEN U64BE(packet_type.receiver) ELSE <<>>)

\* deserial: a broadcast comes out with an empty list
NetworkPacketType_deserial(source) ==
    IF source[1] = 0 THEN DirectMessage(ReadU64BE(SubSeq(source, 2, 9)))
    ELSE BroadcastedMessage(<<>>)

\* a packet on a link: the serialized packet type, and the fields the
\* envelope carries; origin names the node whose application sent it (history)
NetworkPacket(packet_type, peer, network_id, message, origin) ==
    [packet_type |-> NetworkPacketType_serial(packet_type), peer |-> peer,
     network_id |-> network_id, message |-> message, origin |-> origin]

\* the connections of a node, by the id of the peer
Peers(n) == {m \in RouterNodes : {n, m} \in world.links}

\* the connection to m carries the network
carries(m, network_id) == network_id \in world.nets[m]

\* the fingerprint: a hash over (network_id, payload body), taken as injective
fingerprint(network_id, message) == <<network_id>> \o message

InSeq(x, seq) == \E i \in 1..Len(seq) : seq[i] = x

\* a queue that keeps nothing
dedup_forget(queue, fp) == queue

\* the dedup queue: insertion-ordered, the oldest entry leaves when full
dedup_insert(queue, fp) ==
    IF Len(queue) < QueueCap THEN Append(queue, fp) ELSE Append(Tail(queue), fp)

\* send_over_all_connections: data goes to every connection the filter took
send_over_all_connections(n, data, targets) ==
    [link \in RouterNodes \X RouterNodes |->
        IF link[1] = n /\ link[2] \in targets THEN Append(chan[link], data)
        ELSE chan[link]]

\* the connections a broadcast goes out on
fanout_targets(n, source, network_id, excluded) ==
    {m \in Peers(n) \ {source} : carries(m, network_id) /\ ~InSeq(m, excluded)}

\* the application of n broadcasts a payload: the packet lists n itself
send_broadcast_message(n, network_id, message) ==
    /\ Len(originated) < MaxBroadcasts
    /\ originated' = Append(originated, [node |-> n, network_id |-> network_id,
                                         message |-> message])
    /\ chan' = send_over_all_connections(n,
                   NetworkPacket(BroadcastedMessage(<<n>>), n, network_id, message, n),
                   fanout_targets(n, n, network_id, <<n>>))
    /\ UNCHANGED <<world, router, direct>>

\* what the router of n does with a broadcast from the connection to m
route_broadcast(n, m, pac, excluded) ==
    LET fp == fingerprint(pac.network_id, pac.message)
        targets == fanout_targets(n, m, pac.network_id, excluded)
        out == NetworkPacket(BroadcastedMessage(Append(excluded, n)), n,
                             pac.network_id, pac.message, pac.origin)
    IN  IF InSeq(fp, router[n].seen)
        THEN [seen |-> router[n].seen, delivered |-> <<>>, fanout |-> <<>>,
              chan |-> chan]
        ELSE [seen |-> dedup_insert(router[n].seen, fp),
              delivered |-> <<[network_id |-> pac.network_id, message |-> pac.message]>>,
              fanout |-> <<[fp |-> fp, targets |-> targets]>>,
              chan |-> send_over_all_connections(n, out, targets)]

\* what it does with a direct message
route_direct(n, pac, receiver) ==
    [seen |-> router[n].seen,
     delivered |-> IF receiver = n
                   THEN <<[network_id |-> pac.network_id, message |-> pac.message]>>
                   ELSE <<>>,
     fanout |-> <<>>,
     chan |-> IF receiver # n /\ receiver \in Peers(n) /\ carries(receiver, pac.network_id)
              THEN send_over_all_connections(n, pac, {receiver})
              ELSE chan]

\* the router of n takes the next packet of the connection to m
route_packet(n, m) ==
    /\ chan[<<m, n>>] # <<>>
    /\ \E pac \in {Head(chan[<<m, n>>])} :
       \E packet_type \in {NetworkPacketType_deserial(pac.packet_type)} :
       \E r \in {IF packet_type.kind = "Broadcast"
                 THEN route_broadcast(n, m, pac, packet_type.excluded)
                 ELSE route_direct(n, pac, packet_type.receiver)} :
          /\ router' = [router EXCEPT
                 ![n].seen = r.seen,
                 ![n].delivered = @ \o r.delivered,
                 ![n].fanouts = @ \o r.fanout,
                 ![n].received = Append(@, [from |-> m, packet_type |-> packet_type,
                                            network_id |-> pac.network_id,
                                            message |-> pac.message,
                                            origin |-> pac.origin])]
          /\ chan' = [r.chan EXCEPT ![<<m, n>>] = Tail(@)]
    /\ UNCHANGED <<world, originated, direct>>

(***************************************************************************)
(* A direct message from the node that dialled: node 2 connects to node 1  *)
(* and its application sends packets addressed to node 1.                  *)
(***************************************************************************)
\* a reader that ran out of bytes, or met a byte it does not accept
Failed == [ok |-> FALSE, value |-> <<>>, rest |-> <<>>]

Drop(source, n) == SubSeq(source, n + 1, Len(source))

\* NetworkPacketType::deserial with the bytes it consumes
NetworkPacketType_read(source) ==
    IF source = <<>> \/ source[1] \notin {0, 1} \/ (source[1] = 0 /\ Len(source) < 9)
    THEN Failed
    ELSE [ok |-> TRUE, value |-> NetworkPacketType_deserial(source),
          rest |-> Drop(source, IF source[1] = 0 THEN 9 ELSE 1)]

\* P2PPeer on the wire: id u64, type u8, ip variant (4: 4 bytes, 6: 16), port u16
IpLen(variant) == IF variant = 4 THEN 4 ELSE 16

P2PPeer_deserial(source) ==
    IF \/ Len(source) < 10
       \/ source[9] \notin {0, 1}
       \/ source[10] \notin {4, 6}
       \/ Len(source) < 12 + IpLen(source[10])
    THEN Failed
    ELSE [ok |-> TRUE,
          value |-> [id |-> SubSeq(source, 1, 8), peer_type |-> source[9],
                     ip |-> SubSeq(source, 11, 10 + IpLen(source[10])),
                     port |-> ReadU16BE(SubSeq(source, 11 + IpLen(source[10]),
                                               12 + IpLen(source[10])))],
          rest |-> Drop(source, 12 + IpLen(source[10]))]

\* NetworkId on the wire: u16
NetworkId_serial(network_id) == U16BE(network_id)

NetworkId_deserial(source) ==
    IF Len(source) < 2 THEN Failed
    ELSE [ok |-> TRUE, value |-> ReadU16BE(source), rest |-> Drop(source, 2)]

\* the payload on the wire: its length u32, then its bytes
HybridBuf_serial(message) == U32BE(Len(message)) \o message

HybridBuf_deserial(source) ==
    IF Len(source) < 4 THEN Failed
    ELSE IF Len(source) < 4 + ReadU32BE(source) THEN Failed
    ELSE [ok |-> TRUE, value |-> SubSeq(source, 5, 4 + ReadU32BE(source)),
          rest |-> Drop(source, 4 + ReadU32BE(source))]

\* impl Serial for NetworkPacket: serial writes the packet type, the network
\* and the message
NetworkPacket_serial(pac) ==
    NetworkPacketType_serial(pac.packet_type)
    \o NetworkId_serial(pac.network_id)
    \o HybridBuf_serial(pac.message)

\* deserial reads the packet type, a peer, the network and the message
NetworkPacket_deserial(source) ==
    LET packet_type == NetworkPacketType_read(source)
        peer == P2PPeer_deserial(packet_type.rest)
        network_id == NetworkId_deserial(peer.rest)
        message == HybridBuf_deserial(network_id.rest)
    IN  IF packet_type.ok /\ peer.ok /\ network_id.ok /\ message.ok
        THEN [ok |-> TRUE,
              value |-> [packet_type |-> packet_type.value, peer |-> peer.value,
                         network_id |-> network_id.value, message |-> message.value],
              rest |-> message.rest]
        ELSE Failed

\* the envelope: the handshake request, or the tag of a packet and the packet
NetworkMessage_serial(pac) == <<2>> \o NetworkPacket_serial(pac)

NetworkMessage_deserial(frame) ==
    IF frame = HANDSHAKE_REQUEST
    THEN [ok |-> TRUE, value |-> [kind |-> "Handshake"], rest |-> <<>>]
    ELSE IF frame # <<>> /\ frame[1] = 2
    THEN NetworkPacket_deserial(Tail(frame))
    ELSE Failed

\* payloads of the direct messages: "hello", one byte, and one whose bytes
\* 4 and 13..16 read as an ip variant and a length
DirectPayloads ==
    {<<104, 101, 108, 108, 111>>, <<120>>,
     <<1, 2, 0, 4, 127, 0, 0, 1, 34, 184, 0, 100, 0, 0, 0, 1, 120>>}

\* what the application-plane receiver of a node observes
Observed(kind, network_id, message) ==
    [kind |-> kind, network_id |-> network_id, message |-> message]

\* TlsServer::connect from the open socket on: the handshake request is the
\* first message queued on the new connection
connect_and_request ==
    /\ direct.pc = "idle"
    /\ direct' = [direct EXCEPT !.pc = "connected", !.link = <<HANDSHAKE_REQUEST>>]
    /\ UNCHANGED <<world, router, chan, originated>>

\* the application of node 2 sends a packet to receiver: it is queued on the
\* connection behind what is queued already
send_direct_message(receiver, network_id, message) ==
    /\ direct.pc = "connected"
    /\ Len(direct.sent) < MaxDirects
    /\ direct' = [direct EXCEPT
           !.link = Append(@, NetworkMessage_serial(
                                  [packet_type |-> DirectMessage(receiver),
                                   network_id |-> network_id, message |-> message])),
           !.sent = Append(@, [network_id |-> network_id, message |-> message])]
    /\ UNCHANGED <<world, router, chan, originated>>

\* node 1 takes the next frame of the connection: a handshake request goes to
\* the receiver, a packet goes through the router, a frame that does not
\* deserialize is counted
process_message ==
    /\ direct.link # <<>>
    /\ \E msg \in {NetworkMessage_deserial(Head(direct.link))} :
          direct' = [direct EXCEPT
              !.link = Tail(@),
              !.failed = IF msg.ok THEN @ ELSE @ + 1,
              !.pkt_out =
                  IF ~msg.ok THEN @
                  ELSE IF "kind" \in DOMAIN msg.value
                  THEN Append(@, Observed("Handshake", 0, <<>>))
                  ELSE IF msg.value.packet_type.kind = "Direct"
                  THEN @ \o [i \in 1..Len(route_direct(1, msg.value,
                                              msg.value.packet_type.receiver).delivered) |->
                                Observed("DirectMessage", msg.value.network_id,
                                         msg.value.message)]
                  ELSE @]
    /\ UNCHANGED <<world, router, chan, originated>>

(***************************************************************************)
(* Ban propagation between nodes that trust peer bans.  Each node runs     *)
(* P2PNode::ban_node for a ban of its own application and, through the     *)
(* message loop, for every BanNode request it receives.                    *)
(***************************************************************************)
\* the nodes n is connected to
BanPeers(n) == {m \in RouterNodes : {n, m} \in ban_net.links}

\* P2PNode::send_ban at node n: the BanNode request goes to the connected
\* peers, the one the request came from apart (from = 0: the application)
mesh_send_ban(chans, n, b, from) ==
    [link \in RouterNodes \X RouterNodes |->
        IF link[1] = n /\ link[2] \in BanPeers(n) \ {from}
        THEN Append(chans[link], b)
        ELSE chans[link]]

\* P2PNode::ban_node at node n, all nodes trusting peer bans: the store
\* write, then send_ban
mesh_ban_node(net, n, b, from) ==
    [net EXCEPT !.kvs[n] = @ \cup {BanIdSerial(b)},
                !.chan = mesh_send_ban(@, n, b, from)]

\* the nodes connect
connect_mesh(links) ==
    /\ ban_net.links = {}
    /\ ban_net' = [ban_net EXCEPT !.links = links]

\* the application of node n bans b
issue_ban(n, b) ==
    /\ ban_net.links # {}
    /\ ~ban_net.issued
    /\ ban_net' = [mesh_ban_node(ban_net, n, b, 0) EXCEPT !.issued = TRUE]

\* the message loop of node n takes the BanNode request that m sent
\* (cli.rs: utils::ban_node)
receive_ban(n, m) ==
    /\ ban_net.chan[<<m, n>>] # <<>>
    /\ ban_net' = mesh_ban_node([ban_net EXCEPT !.chan[<<m, n>>] = Tail(@)],
                                n, Head(ban_net.chan[<<m, n>>]), m)

(***************************************************************************)
(* Initial states.                                                         *)
(***************************************************************************)
ServerStart ==
    /\ self_type \in PeerTypes
    /\ max_peers \in 0..MaxPeers
    /\ no_trust_bans \in BOOLEAN
    /\ connections = <<>>
    /\ next_id = FIRST_TOKEN
    /\ banned_peers = {}
    /\ unreachable_nodes = {}
    /\ to_disconnect = <<>>
    /\ kvs = {}
    /\ now = 0
    /\ panicked = FALSE
    /\ ret = Ret("init", "Ok")
    /\ bans_done = {}
    /\ buckets = {}

\* no PeerList response is being handled
PeerListIdle(desired_nodes) ==
    [pc |-> "idle", desired_nodes |-> desired_nodes, peers |-> <<>>, rest |-> <<>>,
     peer_count |-> 0, new_peers |-> 0, dialled |-> <<>>]

(***************************************************************************)
(* main (cli.rs) and the threads it starts.  is_baker: a baker id is       *)
(* configured; consensus: start_consensus_layer returned Some.  The        *)
(* threads of start_consensus_threads run when consensus is Some, the      *)
(* baker thread when is_baker.  Each queue holds "Relay" and "Stop"        *)
(* envelopes: pkt is the node's packet queue, skov the queue of the global *)
(* state thread, callback is consensus::CALLBACK_QUEUE.                    *)
(***************************************************************************)
ThreadsStarted(is_baker, consensus) ==
    [is_baker |-> is_baker, consensus |-> consensus,
     main |-> "join_node", node |-> "running",
     global_state |-> IF consensus THEN "running" ELSE "none",
     guard_pkt |-> IF consensus THEN "running" ELSE "none",
     baker |-> IF is_baker THEN "running" ELSE "none",
     pkt |-> <<>>, skov |-> <<>>, callback |-> <<>>, relayed |-> 0]

\* nothing stored, no Retransmit request handled
\* nodes that are not connected yet, with empty ban stores
BanNetIdle ==
    [links |-> {}, kvs |-> [n \in RouterNodes |-> {}],
     chan |-> [link \in RouterNodes \X RouterNodes |-> <<>>], issued |-> FALSE]

\* flush_socket is not running and the output queue is empty
FlushIdle ==
    [pc |-> "idle", output_queue |-> <<>>, message |-> Cursor(<<>>),
     wrote |-> Wrote("none", 0), result |-> "none"]

\* no packet is being serialized
PacketIdle == [pc |-> "idle"]

RetransmitIdle == [stored |-> <<>>, request |-> <<>>, sent |-> <<>>]

ServerInit ==
    /\ ServerStart
    /\ peer_list = PeerListIdle(MaxDesired)
    /\ retransmit = RetransmitIdle
    /\ dptr = DptrFree
    /\ packet_io = PacketIdle
    /\ networks = {}
    /\ flush_io = FlushIdle
    /\ ban_net = BanNetIdle
    /\ threads = ThreadsStarted(FALSE, FALSE)

\* a server nothing happens at
ServerIdle ==
    /\ ServerInit
    /\ self_type = "Node"
    /\ max_peers = MaxPeers
    /\ no_trust_bans

CodecInit ==
    /\ ll = [e \in Ends |-> ConnectionLowLevel(e = "initiator")]
    /\ socket = [e \in Ends |-> <<>>]
    /\ conn_err = [e \in Ends |-> "None"]
    /\ frames = [e \in Ends |-> <<>>]
    /\ app_sent = [e \in Ends |-> <<>>]
    /\ queued = [e \in Ends |-> <<>>]
    /\ accepted = [e \in Ends |-> <<>>]
    /\ read_ret = [e \in Ends |-> [read |-> "none", result |-> "none"]]
    /\ injected = 0

ChunkIdle ==
    /\ plain_len = 0
    /\ sealed_lens = <<>>
    /\ cut_lens = <<>>
    /\ chunk_pc = "input"

ChunkInit ==
    /\ plain_len \in ChunkLens
    /\ sealed_lens = <<>>
    /\ cut_lens = <<>>
    /\ chunk_pc = "input"

Line == {{1, 2}, {2, 3}}

Triangle == {{1, 2}, {2, 3}, {1, 3}}

RouterStart ==
    /\ router = [n \in RouterNodes |->
                    [seen |-> <<>>, delivered |-> <<>>, fanouts |-> <<>>, received |-> <<>>]]
    /\ chan = [link \in RouterNodes \X RouterNodes |-> <<>>]
    /\ originated = <<>>
    /\ direct = [pc |-> "idle", link |-> <<>>, sent |-> <<>>, pkt_out |-> <<>>,
                 failed |-> 0]

\* no network
RouterIdle ==
    /\ world = [links |-> {}, nets |-> [n \in RouterNodes |-> {}]]
    /\ RouterStart

\* three nodes in a line or in a triangle; the third may be on another network
RouterInit ==
    /\ world \in {[links |-> l, nets |-> [n \in RouterNodes |-> IF n = 3 THEN x ELSE Networks]] :
                     l \in {Line, Triangle}, x \in {{100}, {200}}}
    /\ RouterStart

(***************************************************************************)
(* The steps of the node's server.                                         *)
(***************************************************************************)
otherThanServer == <<lim, codecVars, chunkVars, routerVars, cliVars, procVars, unitVars>>

AcceptStep ==
    /\ \E addr \in Addrs, reg_ok \in BOOLEAN : accept(addr, reg_ok)
    /\ UNCHANGED otherThanServer

ConnectStep ==
    /\ \E peer_type \in PeerTypes, addr \in Addrs, peer_id_opt \in {0} \cup NodeIds,
          tcp_ok \in BOOLEAN, reg_ok \in BOOLEAN :
            connect(peer_type, addr, peer_id_opt, tcp_ok, reg_ok)
    /\ UNCHANGED otherThanServer

\* a dial whose TCP connect succeeds
DialStep ==
    /\ \E peer_type \in PeerTypes, addr \in Addrs, reg_ok \in BOOLEAN :
          connect(peer_type, addr, 0, TRUE, reg_ok)
    /\ UNCHANGED otherThanServer

HandshakeStep ==
    /\ \E i \in 1..MaxTokens, id \in NodeIds : receive_handshake(i, id)
    /\ UNCHANGED otherThanServer

BanStep ==
    /\ \E b \in BanIds, store_ok \in BOOLEAN : ban_node(b, store_ok)
    /\ UNCHANGED otherThanServer

UnbanStep ==
    /\ \E b \in BanIds, store_ok \in BOOLEAN : unban_node(b, store_ok)
    /\ UNCHANGED otherThanServer

ClearStep ==
    /\ \E store_ok \in BOOLEAN : clear_bans(store_ok)
    /\ UNCHANGED otherThanServer

CleanupStep ==
    /\ cleanup_connections
    /\ UNCHANGED otherThanServer

RestartStep ==
    /\ Restart
    /\ UNCHANGED otherThanServer

Init ==
    /\ ServerInit
    /\ max_peers = MaxPeers
    /\ ~no_trust_bans
    /\ lim = ScaledLimits
    /\ CodecInit
    /\ ChunkIdle
    /\ RouterIdle

Next ==
    \/ AcceptStep
    \/ ConnectStep
    \/ HandshakeStep
    \/ BanStep
    \/ UnbanStep
    \/ ClearStep
    \/ CleanupStep
    \/ RestartStep

Spec == Init /\ [][Next]_vars

(***************************************************************************)
(* Admission alone, under every capacity up to MaxPeers.                   *)
(***************************************************************************)
CapacityInit ==
    /\ ServerInit
    /\ ~no_trust_bans
    /\ lim = ScaledLimits
    /\ CodecInit
    /\ ChunkIdle
    /\ RouterIdle

CapacityNext ==
    \/ AcceptStep
    \/ ConnectStep
    \/ HandshakeStep
    \/ CleanupStep
    \/ RestartStep

SpecCapacity == CapacityInit /\ [][CapacityNext]_vars

(***************************************************************************)
(* The server with the readiness events of its connections.                *)
(***************************************************************************)
EventTokens == FIRST_TOKEN..(TokenCap - 1)

ConnEventStep ==
    /\ \E token \in EventTokens, outcome \in ReadyOutcomes : conn_event(token, outcome)
    /\ UNCHANGED otherThanServer

EventsNext ==
    \/ AcceptStep
    \/ ConnectStep
    \/ HandshakeStep
    \/ ConnEventStep
    \/ CleanupStep

SpecEvents == CapacityInit /\ [][EventsNext]_vars

(***************************************************************************)
(* Retransmit requests at a node that stores the elements it sees.         *)
(***************************************************************************)
ElementTypes == KnownElementTypes \cup {"Unknown"}

SeenStamps == 1..2

StoreStep ==
    /\ \E element_type \in KnownElementTypes, seen_at \in SeenStamps,
          data \in RouterPayloads : store_element(element_type, seen_at, data)
    /\ UNCHANGED <<serverVars, lim, codecVars, chunkVars, routerVars, peer_list, procVars, unitVars>>

RetransmitStep ==
    /\ \E requester \in NodeIds, element_type \in ElementTypes,
          since \in 1..3, nid \in Networks :
            handle_retransmit(requester, element_type, since, nid)
    /\ UNCHANGED <<serverVars, lim, codecVars, chunkVars, routerVars, peer_list, procVars, unitVars>>

RetransmitNext == StoreStep \/ RetransmitStep

SpecRetransmit == Init /\ [][RetransmitNext]_vars

(***************************************************************************)
(* The server with the lock of its registry: events and sends take it,     *)
(* the other operations run while it is free.                              *)
(***************************************************************************)
LockEventStep ==
    /\ \E token \in EventTokens : lock_conn_event(token)
    /\ UNCHANGED <<lim, codecVars, chunkVars, routerVars, cliVars, unitVars>>

FinishEventStep ==
    /\ \E outcome \in ReadyOutcomes : finish_conn_event(outcome)
    /\ UNCHANGED <<lim, codecVars, chunkVars, routerVars, cliVars, unitVars>>

LockSendStep ==
    /\ lock_send_over_all_connections
    /\ UNCHANGED <<lim, codecVars, chunkVars, routerVars, cliVars, unitVars>>

FinishSendStep ==
    /\ finish_send_over_all_connections
    /\ UNCHANGED <<lim, codecVars, chunkVars, routerVars, cliVars, unitVars>>

WhileUnlocked ==
    /\ dptr.writer = "none"
    /\ (AcceptStep \/ ConnectStep \/ HandshakeStep \/ CleanupStep)

LocksNext ==
    \/ WhileUnlocked
    \/ LockEventStep
    \/ FinishEventStep
    \/ LockSendStep
    \/ FinishSendStep

SpecLocks == CapacityInit /\ [][LocksNext]_vars

(***************************************************************************)
(* The threads of the node from their start to the return of main.  Every  *)
(* thread that can take a step eventually takes one.                       *)
(***************************************************************************)
otherThanThreads ==
    <<serverVars, lim, codecVars, chunkVars, routerVars, cliVars, dptr, unitVars>>

NodeRelayStep == node_relay /\ UNCHANGED otherThanThreads

NodeExitStep == node_exit /\ UNCHANGED otherThanThreads

ConsensusCallbackStep == consensus_callback /\ UNCHANGED otherThanThreads

GlobalStateStep == global_state_thread /\ UNCHANGED otherThanThreads

GuardPktStep == guard_pkt /\ UNCHANGED otherThanThreads

BakerStep == start_baker_thread /\ UNCHANGED otherThanThreads

MainStep == main /\ UNCHANGED otherThanThreads

ShutdownInit ==
    /\ ServerStart
    /\ self_type = "Node"
    /\ max_peers = MaxPeers
    /\ ~no_trust_bans
    /\ peer_list = PeerListIdle(MaxDesired)
    /\ retransmit = RetransmitIdle
    /\ dptr = DptrFree
    /\ packet_io = PacketIdle
    /\ networks = {}
    /\ flush_io = FlushIdle
    /\ ban_net = BanNetIdle
    /\ \E is_baker \in BOOLEAN, consensus \in BOOLEAN :
          /\ consensus => is_baker
          /\ threads = ThreadsStarted(is_baker, consensus)
    /\ lim = ScaledLimits
    /\ CodecInit
    /\ ChunkIdle
    /\ RouterIdle

ShutdownNext ==
    \/ NodeRelayStep
    \/ NodeExitStep
    \/ ConsensusCallbackStep
    \/ GlobalStateStep
    \/ GuardPktStep
    \/ BakerStep
    \/ MainStep

SpecThreads == ShutdownInit /\ [][ShutdownNext]_vars

SpecShutdown ==
    /\ SpecThreads
    /\ WF_vars(NodeExitStep)
    /\ WF_vars(GlobalStateStep)
    /\ WF_vars(GuardPktStep)
    /\ WF_vars(BakerStep)
    /\ WF_vars(MainStep)

(***************************************************************************)
(* The same server while time passes.                                      *)
(***************************************************************************)
TickStep ==
    /\ \E stamp \in Stamps : Tick(stamp)
    /\ UNCHANGED otherThanServer

TimeNext ==
    \/ AcceptStep
    \/ ConnectStep
    \/ HandshakeStep
    \/ CleanupStep
    \/ TickStep

SpecTime == CapacityInit /\ [][TimeNext]_vars

(***************************************************************************)
(* The server joining and leaving networks while it takes connections.     *)
(***************************************************************************)
otherThanNetworks ==
    <<lim, codecVars, chunkVars, routerVars, cliVars, procVars, packet_io, flush_io,
      ban_net>>

AddNetworkStep ==
    /\ \E network_id \in ServerNetworks : add_network(network_id)
    /\ UNCHANGED otherThanNetworks

RemoveNetworkStep ==
    /\ \E network_id \in ServerNetworks : remove_network(network_id)
    /\ UNCHANGED otherThanNetworks

NetworksNext ==
    \/ AcceptStep
    \/ DialStep
    \/ AddNetworkStep
    \/ RemoveNetworkStep

SpecNetworks == CapacityInit /\ [][NetworksNext]_vars

(***************************************************************************)
(* The server with its clock, the readiness events of its connections and  *)
(* their failed packets: the liveness sweep at work.                       *)
(***************************************************************************)
\* the packets failing in one event: just under the budget, and the budget
FailedBursts == {MAX_FAILED_PACKETS_ALLOWED - 1, MAX_FAILED_PACKETS_ALLOWED}

FailPacketsStep ==
    /\ \E token \in EventTokens, n \in FailedBursts : fail_packets(token, n)
    /\ UNCHANGED otherThanServer

\* the clock around the two keep-alive limits
KeepAliveStamps ==
    {MAX_BOOTSTRAPPER_KEEP_ALIVE, MAX_BOOTSTRAPPER_KEEP_ALIVE + 1,
     MAX_NORMAL_KEEP_ALIVE, MAX_NORMAL_KEEP_ALIVE + 1}

KeepAliveTickStep ==
    /\ \E stamp \in KeepAliveStamps : Tick(stamp)
    /\ UNCHANGED otherThanServer

LivenessNext ==
    \/ AcceptStep
    \/ DialStep
    \/ ConnEventStep
    \/ FailPacketsStep
    \/ CleanupStep
    \/ KeepAliveTickStep

SpecLiveness == CapacityInit /\ [][LivenessNext]_vars

(***************************************************************************)
(* PeerList responses at a server that accepts, connects and handshakes.   *)
(***************************************************************************)
\* the lists a response can carry: up to two peers with distinct addresses
ListedPeers == [id : NodeIds, addr : Addrs]

PeerLists ==
    {<<>>} \cup {<<p>> : p \in ListedPeers}
    \cup {l \in ListedPeers \X ListedPeers : l[1].addr # l[2].addr}

PeerListReceivedStep ==
    /\ \E peers \in PeerLists : peer_list_received(peers)
    /\ UNCHANGED <<lim, codecVars, chunkVars, routerVars, retransmit, procVars, unitVars>>

PeerListDialStep ==
    /\ \E tcp_ok \in BOOLEAN, reg_ok \in BOOLEAN : peer_list_dial(tcp_ok, reg_ok)
    /\ UNCHANGED <<lim, codecVars, chunkVars, routerVars, retransmit, procVars, unitVars>>

\* the server's own steps, between two responses
BetweenResponses ==
    /\ peer_list.pc = "idle"
    /\ (AcceptStep \/ ConnectStep \/ HandshakeStep)

\* the node binary: a server of type Node
PeerListInit ==
    /\ ServerStart
    /\ self_type = "Node"
    /\ ~no_trust_bans
    /\ peer_list \in {PeerListIdle(d) : d \in 1..MaxDesired}
    /\ retransmit = RetransmitIdle
    /\ dptr = DptrFree
    /\ packet_io = PacketIdle
    /\ networks = {}
    /\ flush_io = FlushIdle
    /\ ban_net = BanNetIdle
    /\ threads = ThreadsStarted(FALSE, FALSE)
    /\ lim = ScaledLimits
    /\ CodecInit
    /\ ChunkIdle
    /\ RouterIdle

PeerListNext ==
    \/ BetweenResponses
    \/ PeerListReceivedStep
    \/ PeerListDialStep

SpecPeerList == PeerListInit /\ [][PeerListNext]_vars

(***************************************************************************)
(* Admission and bans, before any peer id is known.                        *)
(***************************************************************************)
AdmissionNext ==
    \/ AcceptStep
    \/ ConnectStep
    \/ BanStep
    \/ UnbanStep
    \/ ClearStep
    \/ CleanupStep
    \/ RestartStep

SpecAdmission == Init /\ [][AdmissionNext]_vars

(***************************************************************************)
(* The ban store alone: bans, their lifting, and restarts.                 *)
(***************************************************************************)
BansNext ==
    \/ BanStep
    \/ UnbanStep
    \/ ClearStep
    \/ RestartStep

BansInit ==
    /\ ServerInit
    /\ self_type = "Node"
    /\ max_peers = MaxPeers
    /\ lim = ScaledLimits
    /\ CodecInit
    /\ ChunkIdle
    /\ RouterIdle

SpecBans == BansInit /\ [][BansNext]_vars

(***************************************************************************)
(* BanNode requests of peers at a node with connections, with either       *)
(* setting of no_trust_bans.                                               *)
(***************************************************************************)
BanRequestStep ==
    /\ \E peer \in NodeIds, peer_to_ban \in BanIds, store_ok \in BOOLEAN :
          utils_ban_node(peer, peer_to_ban, store_ok)
    /\ UNCHANGED otherThanServer

BanRequestsInit ==
    /\ ServerInit
    /\ max_peers = MaxPeers
    /\ lim = ScaledLimits
    /\ CodecInit
    /\ ChunkIdle
    /\ RouterIdle

BanRequestsNext ==
    \/ AcceptStep
    \/ ConnectStep
    \/ HandshakeStep
    \/ BanRequestStep

SpecBanRequests == BanRequestsInit /\ [][BanRequestsNext]_vars

(***************************************************************************)
(* One connection between two honest nodes, at the level of its bytes.     *)
(***************************************************************************)
otherThanCodec == <<serverVars, chunkVars, routerVars, cliVars, procVars, unitVars>>

SendMessageAStep ==
    /\ send_message_a
    /\ UNCHANGED otherThanCodec

ReadStep ==
    /\ \E e \in Ends, k \in 1..MaxMessageLen : read_stream(e, k)
    /\ UNCHANGED otherThanCodec

\* the socket takes all it is offered
FlushStep ==
    /\ \E e \in Ends :
          /\ ll[e].output_queue # <<>>
          /\ flush_socket(e, copy_chunk_size(Head(ll[e].output_queue)))
    /\ UNCHANGED otherThanCodec

\* the lengths of the payloads written: none, one byte, a full chunk, the longest
PayloadLens == {0, 1, MaxMessageLen - MacLen, MaxPayload}

SendPayloadStep ==
    /\ \E e \in Ends, n \in PayloadLens : send_payload(e, n)
    /\ UNCHANGED otherThanCodec

CodecNext ==
    \/ SendMessageAStep
    \/ ReadStep
    \/ FlushStep
    \/ SendPayloadStep

LinkInit == ServerIdle /\ lim = ScaledLimits /\ CodecInit /\ ChunkIdle /\ RouterIdle

SpecCodec == LinkInit /\ [][CodecNext]_vars

(***************************************************************************)
(* The same connection when sends are requested at any time, from connect  *)
(* on.                                                                     *)
(***************************************************************************)
SerializeBytesStep ==
    /\ \E e \in Ends, n \in PayloadLens : serialize_bytes(e, n)
    /\ UNCHANGED otherThanCodec

SendsNext ==
    \/ SendMessageAStep
    \/ ReadStep
    \/ FlushStep
    \/ SerializeBytesStep

SpecSends == LinkInit /\ [][SendsNext]_vars

(***************************************************************************)
(* One connection whose sockets accept any part of what they are offered.  *)
(***************************************************************************)
\* a socket write takes any prefix of the offered bytes, or would block
WriteStep ==
    /\ \E e \in Ends, k \in 0..MaxMessageLen : flush_socket(e, k)
    /\ UNCHANGED otherThanCodec

\* a socket read takes all it can
ReadAllStep ==
    /\ \E e \in Ends : read_stream(e, Min2(Len(socket[e]), read_size(ll[e])))
    /\ UNCHANGED otherThanCodec

SendLongestStep ==
    /\ \E e \in Ends : send_payload(e, MaxPayload)
    /\ UNCHANGED otherThanCodec

FlushNext ==
    \/ SendMessageAStep
    \/ ReadAllStep
    \/ WriteStep
    \/ SendLongestStep

SpecFlush == LinkInit /\ [][FlushNext]_vars

(***************************************************************************)
(* A responder reading what a peer that does not run the codec writes.     *)
(***************************************************************************)
\* the bytes such a peer writes: they spell the length prefixes 0, 1, the
\* ceiling 268435456, the ceiling plus one, and lengths far above it
WireBytes == {0, 1, 16, 127}

InjectStep ==
    /\ \E b \in WireBytes : inject("responder", b)
    /\ UNCHANGED otherThanCodec

PrefixNext ==
    \/ InjectStep
    \/ ReadStep

SpecPrefix == LinkInit /\ [][PrefixNext]_vars

(***************************************************************************)
(* One connection whose responder is also sent bytes by a peer outside the *)
(* codec, and whose streams may end.                                       *)
(***************************************************************************)
EofStep ==
    /\ \E e \in Ends : read_eof(e)
    /\ UNCHANGED otherThanCodec

\* bytes that make prefixes of 0, of 16, and of more than the ceiling
TamperBytes == {0, 16}

TamperStep ==
    /\ \E b \in TamperBytes : inject("responder", b)
    /\ UNCHANGED otherThanCodec

ErrorsNext ==
    \/ SendMessageAStep
    \/ FlushStep
    \/ ReadAllStep
    \/ TamperStep
    \/ EofStep

SpecErrors == LinkInit /\ [][ErrorsNext]_vars

(***************************************************************************)
(* The routers of a small network.                                         *)
(***************************************************************************)
otherThanRouter == <<serverVars, lim, codecVars, chunkVars, cliVars, procVars, unitVars>>

BroadcastStep ==
    /\ \E n \in RouterNodes, network_id \in Networks, message \in RouterPayloads :
          send_broadcast_message(n, network_id, message)
    /\ UNCHANGED otherThanRouter

RouteStep ==
    /\ \E n \in RouterNodes, m \in RouterNodes : route_packet(n, m)
    /\ UNCHANGED otherThanRouter

RouterNext ==
    \/ BroadcastStep
    \/ RouteStep

ConnectAndRequestStep ==
    /\ connect_and_request
    /\ UNCHANGED otherThanRouter

SendDirectStep ==
    /\ \E network_id \in Networks, message \in DirectPayloads :
          send_direct_message(1, network_id, message)
    /\ UNCHANGED otherThanRouter

ProcessMessageStep ==
    /\ process_message
    /\ UNCHANGED otherThanRouter

EchoNext ==
    \/ ConnectAndRequestStep
    \/ SendDirectStep
    \/ ProcessMessageStep

GossipInit == ServerIdle /\ lim = ScaledLimits /\ CodecInit /\ ChunkIdle /\ RouterInit

SpecGossip == GossipInit /\ [][RouterNext]_vars

\* nodes 1 and 2 connected, both on every network
EchoInit ==
    /\ ServerIdle /\ lim = ScaledLimits /\ CodecInit /\ ChunkIdle
    /\ world = [links |-> {{1, 2}}, nets |-> [n \in RouterNodes |-> Networks]]
    /\ RouterStart

SpecEcho == EchoInit /\ [][EchoNext]_vars

(***************************************************************************)
(* The chunking rule on the lengths around the chunk limits.               *)
(***************************************************************************)
SealLensStep ==
    /\ seal_lens
    /\ UNCHANGED <<serverVars, codecVars, routerVars, cliVars, procVars, unitVars>>

CutChunksStep ==
    /\ cut_chunks
    /\ UNCHANGED <<serverVars, codecVars, routerVars, cliVars, procVars, unitVars>>

NextPayloadStep ==
    /\ next_payload
    /\ UNCHANGED <<serverVars, codecVars, routerVars, cliVars, procVars, unitVars>>

ChunksNext ==
    \/ SealLensStep
    \/ CutChunksStep
    \/ NextPayloadStep

ChunksInit ==
    /\ ServerIdle
    /\ lim = RealLimits
    /\ CodecInit
    /\ ChunkInit
    /\ RouterIdle

SpecChunks == ChunksInit /\ [][ChunksNext]_vars

(***************************************************************************)
(* One connection's flush_socket with a socket that takes all, part or     *)
(* none of what a write offers, blocks, or fails.                          *)
(***************************************************************************)
FlushLens == {1, MaxMessageLen, MaxMessageLen + 1}

OutputQueues ==
    {<<Cursor(Zeros(n))>> : n \in FlushLens}
    \cup {<<Cursor(Zeros(n)), Cursor(Zeros(m))>> : n \in FlushLens, m \in FlushLens}

otherThanFlush ==
    <<serverVars, lim, codecVars, chunkVars, routerVars, cliVars, procVars, packet_io,
      networks, ban_net>>

PushFramesStep ==
    /\ \E queue \in OutputQueues : push_frames(queue)
    /\ UNCHANGED otherThanFlush

CallFlushStep == call_flush_socket /\ UNCHANGED otherThanFlush

FlushPopStep == flush_socket_pop /\ UNCHANGED otherThanFlush

PartialCopyStep ==
    /\ \E outcome \in WriteOutcomes, k \in 0..MaxMessageLen : partial_copy(outcome, k)
    /\ UNCHANGED otherThanFlush

FlushLoopNext ==
    \/ PushFramesStep
    \/ CallFlushStep
    \/ FlushPopStep
    \/ PartialCopyStep

SpecFlushLoop == LinkInit /\ [][FlushLoopNext]_vars

(***************************************************************************)
(* Three nodes in a line or a triangle, one of which bans a node that is   *)
(* not among them.  The message loop of a node with a request waiting      *)
(* takes it eventually.                                                    *)
(***************************************************************************)
BanTopologies ==
    {links \in SUBSET {{1, 2}, {2, 3}, {1, 3}} : Cardinality(links) >= 2}

otherThanBanNet ==
    <<serverVars, lim, codecVars, chunkVars, routerVars, cliVars, procVars, packet_io,
      networks, flush_io>>

ConnectMeshStep ==
    /\ \E links \in BanTopologies : connect_mesh(links)
    /\ UNCHANGED otherThanBanNet

IssueBanStep ==
    /\ \E n \in RouterNodes, b \in BanIds : issue_ban(n, b)
    /\ UNCHANGED otherThanBanNet

ReceiveBanStep ==
    /\ \E n \in RouterNodes, m \in RouterNodes : receive_ban(n, m)
    /\ UNCHANGED otherThanBanNet

BanNetNext ==
    \/ ConnectMeshStep
    \/ IssueBanStep
    \/ ReceiveBanStep

SpecBanNet == LinkInit /\ [][BanNetNext]_vars

SpecBanNetFair ==
    /\ SpecBanNet
    /\ WF_vars(ConnectMeshStep)
    /\ WF_vars(IssueBanStep)
    /\ WF_vars(ReceiveBanStep)

(***************************************************************************)
(* A packet through serial and deserial (impl Serial for NetworkPacket and *)
(* for NetworkPacketType): the sender serializes a packet and its packet   *)
(* type, the receiver deserializes the bytes.                              *)
(***************************************************************************)
PacketTypes ==
    {DirectMessage(receiver) : receiver \in RouterNodes}
    \cup {BroadcastedMessage(excluded) : excluded \in {<<>>, <<1>>, <<2>>, <<2, 3>>}}

\* P2PPeer as deserial returns it
PacketPeers ==
    {[id |-> U64BE(id), peer_type |-> 0, ip |-> <<127, 0, 0, 1>>, port |-> 8888] :
        id \in {1, 2}}

Packets ==
    [packet_type : PacketTypes, peer : PacketPeers, network_id : Networks,
     message : DirectPayloads]

serial_packet(pac) ==
    /\ packet_io.pc = "idle"
    /\ packet_io' = [pc |-> "written", pac |-> pac,
                     bytes |-> NetworkPacket_serial(pac),
                     type_bytes |-> NetworkPacketType_serial(pac.packet_type)]

deserial_packet ==
    /\ packet_io.pc = "written"
    /\ packet_io' = [pc |-> "read", pac |-> packet_io.pac,
                     out |-> NetworkPacket_deserial(packet_io.bytes),
                     type_out |-> NetworkPacketType_read(packet_io.type_bytes)]

otherThanPacket ==
    <<serverVars, lim, codecVars, chunkVars, routerVars, cliVars, procVars, networks,
      flush_io, ban_net>>

SerialStep ==
    /\ \E pac \in Packets : serial_packet(pac)
    /\ UNCHANGED otherThanPacket

DeserialStep ==
    /\ deserial_packet
    /\ UNCHANGED otherThanPacket

PacketsNext ==
    \/ SerialStep
    \/ DeserialStep

PacketsInit ==
    /\ ServerIdle
    /\ lim = ScaledLimits
    /\ CodecInit
    /\ ChunkIdle
    /\ RouterIdle

SpecPackets == PacketsInit /\ [][PacketsNext]_vars

(***************************************************************************)
(* Properties of admission and of the ban list.                            *)
(***************************************************************************)
NodeTypeCount ==
    Cardinality({i \in 1..Len(connections) : connections[i].peer_type = "Node"})

\* C1: at a node of type Node configured with max_allowed_nodes = N, the
\* number of connections whose peer type is Node never exceeds N.
C1_NodeCountWithinCap ==
    self_type = "Node" => NodeTypeCount <= max_peers

\* C2: an accept is refused for capacity exactly when the local peer type is
\* Node and the connection count is above max_peers; so an accept at or
\* below the cap is not refused, and a Bootstrapper never refuses for capacity.
C2_AcceptCapacityRule ==
    [][\A addr \in Addrs, reg_ok \in BOOLEAN :
          accept(addr, reg_ok) =>
              (ret'.result = "MaxmimumAmountOfPeers"
                  <=> (self_type = "Node" /\ connections_count > max_peers))]_vars

C4_BannedConnectRefused ==
    [][\A peer_type \in PeerTypes, addr \in Addrs, peer_id_opt \in {0} \cup NodeIds,
          tcp_ok \in BOOLEAN, reg_ok \in BOOLEAN :
          (BanIp(addr.ip) \in bans_done /\ ret'.op = "connect"
              /\ connect(peer_type, addr, peer_id_opt, tcp_ok, reg_ok)) =>
              /\ ret'.result = "BannedNodeRequestedConnectionError"
              /\ connections' = connections]_vars

\* C5: in no state does an identity held in the ban store, a peer id or an
\* IP address, have a connection that is not closing.
C5_NoActiveBannedConnection ==
    \A i \in 1..Len(connections) :
        ~connections[i].closing =>
            /\ ~is_banned(BanIp(connections[i].ip))
            /\ connections[i].peer \in NodeIds => ~is_banned(BanNodeId(connections[i].peer))

\* C6: the ban store is the set of the ban ids banned and not since lifted,
\* through ban, unban, clear_bans and restarts: is_banned answers membership
\* in that set and get_banlist returns that set.
C6_BanStoreIsSet ==
    /\ kvs = {BanIdSerial(b) : b \in bans_done}
    /\ get_banlist = bans_done
    /\ \A b \in BanIds : is_banned(b) <=> b \in bans_done

\* C6 happens: after a restart the store holds two bans, one by id and one
\* by address, while a third ban id is not banned.
C6_Witness ==
    /\ ret.op = "restart"
    /\ BanNodeId(1) \in get_banlist
    /\ BanIp(2) \in get_banlist
    /\ ~is_banned(BanIp(1))
    /\ banned_peers = get_banlist

(***************************************************************************)
(* Properties of the connection codec.                                     *)
(***************************************************************************)
\* the kinds of the handshake frames an end has completed, in order
HandshakeKinds(e) ==
    LET IsHs(f) == f.kind # "data"
        hs == SelectSeq(frames[e], IsHs)
    IN  [i \in 1..Len(hs) |-> hs[i].kind]

\* the messages of the data frames an end has completed, in order
DataMessages(e) ==
    LET IsData(f) == f.kind = "data"
        data == SelectSeq(frames[e], IsData)
    IN  [i \in 1..Len(data) |-> data[i].msg]

IsPrefix(s, t) == Len(s) <= Len(t) /\ SubSeq(t, 1, Len(s)) = s

HandshakeOrder ==
    /\ HandshakeKinds("responder") \in {<<>>, <<"A">>, <<"A", "C">>}
    /\ HandshakeKinds("initiator") \in {<<>>, <<"B">>}
    /\ HandshakeKinds("initiator") # <<>> => HandshakeKinds("responder") # <<>>
    /\ Len(HandshakeKinds("responder")) = 2 => HandshakeKinds("initiator") # <<>>
    /\ \A e \in Ends :
          IsPrefix([i \in 1..Len(HandshakeKinds(e)) |-> "hs"],
                   [i \in 1..Len(frames[e]) |->
                        IF frames[e][i].kind = "data" THEN "data" ELSE "hs"])
    /\ is_post_handshake(ll["responder"]) <=> Len(HandshakeKinds("responder")) = 2
    /\ is_post_handshake(ll["initiator"]) <=> Len(HandshakeKinds("initiator")) = 1
    /\ conn_err = [e \in Ends |-> "None"]

MessageCountGrows ==
    \A e \in Ends : ll'[e].noise_session.mc >= ll[e].noise_session.mc

\* C7: two honest peers exchange exactly the three handshake frames A, B, C
\* in that order; the message count of each side only grows;
\* is_post_handshake is false at the responder until it has processed C and
\* at the initiator until it has processed B, and true at both once C is
\* processed.
C7_HandshakeThreeFrames == []HandshakeOrder /\ [][MessageCountGrows]_vars

\* C7 happens: frame C has been processed, both ends are post-handshake.
C7_Witness ==
    /\ HandshakeKinds("responder") = <<"A", "C">>
    /\ HandshakeKinds("initiator") = <<"B">>
    /\ is_post_handshake(ll["initiator"])
    /\ is_post_handshake(ll["responder"])

\* C8: for each of the three handshake frames the reader returns Discarded:
\* process_message is never invoked for a handshake frame.
C8_HandshakeFramesDiscarded ==
    \A e \in Ends : \A i \in 1..Len(frames[e]) :
        frames[e][i].kind # "data" => frames[e][i].result = "Discarded"

\* nothing is left of what an end sent: its queue is flushed, the peer has
\* read its socket empty and is between two frames
Drained(e) ==
    /\ ll[e].output_queue = <<>>
    /\ socket[Other(e)] = <<>>
    /\ ll[Other(e)].incoming_msg = [pending_bytes |-> 0, message |-> <<>>]

CompletesPrefix(e, k) ==
    /\ ll[e].incoming_msg.pending_bytes = 0
    /\ Len(ll[e].incoming_msg.message) + k = 4

PrefixRead(e, k) == ll[e].incoming_msg.message \o SubSeq(socket[e], 1, k)

\* C11: a length prefix above 268435456 makes the read fail with
\* MessageTooBig while the incoming buffer still is the four prefix bytes
\* (no buffer of the announced size replaces it, pending_bytes stays 0) and
\* nothing beyond the prefix is taken from the socket; a prefix of
\* 268435456 or less is accepted: the frame's length becomes pending.
C11_PrefixCeiling ==
    [][\A e \in Ends, k \in 1..4 :
          (CompletesPrefix(e, k) /\ read_stream(e, k)) =>
              IF ReadU32BE(PrefixRead(e, k)) > 268435456
              THEN /\ conn_err'[e] = "MessageTooBigError"
                   /\ read_ret'[e].result = "Err"
                   /\ ll'[e].incoming_msg = [pending_bytes |-> 0,
                                             message |-> PrefixRead(e, k)]
                   /\ socket'[e] = SubSeq(socket[e], k + 1, Len(socket[e]))
              ELSE /\ conn_err'[e] # "MessageTooBigError"
                   /\ ReadU32BE(PrefixRead(e, k)) > 0 =>
                          /\ conn_err'[e] = "None"
                          /\ ll'[e].incoming_msg =
                                 [pending_bytes |-> ReadU32BE(PrefixRead(e, k)),
                                  message |-> <<>>]]_vars

\* C11 happens: the responder has refused the prefix 268435457, holds its
\* four bytes and has left in the socket the byte that came after them.
C11_Witness ==
    /\ conn_err["responder"] = "MessageTooBigError"
    /\ ll["responder"].incoming_msg = [pending_bytes |-> 0, message |-> <<16, 0, 0, 1>>]
    /\ socket["responder"] = <<1>>

\* the bytes of the output queue of e that no socket write has taken
Unwritten(e) ==
    LET queue == ll[e].output_queue
    IN  IF queue = <<>> THEN <<>>
        ELSE SubSeq(Head(queue).data, Head(queue).pos + 1, Len(Head(queue).data))
             \o Flat(Tail(queue))

\* C12: whatever the socket writes take (any prefix of the offered bytes,
\* or nothing when they would block), the bytes accepted by the socket are a
\* prefix of the bytes of the queued frames in submission order, and what is
\* left in the queue from the front position on is exactly the rest of
\* them: nothing skipped, duplicated or reordered.
C12_FlushKeepsOrder ==
    \A e \in Ends :
        /\ IsPrefix(accepted[e], queued[e])
        /\ queued[e] = accepted[e] \o Unwritten(e)

\* C12 happens: two payloads written, the initiator's socket has taken part
\* of the message at the front of the queue, which waits there behind its
\* position with further messages queued behind it.
C12_Witness ==
    /\ Len(ll["initiator"].output_queue) > 2
    /\ Head(ll["initiator"].output_queue).pos > 0
    /\ Len(app_sent["initiator"]) = 2
    /\ Len(accepted["initiator"]) > Len(Unwritten("initiator"))

(***************************************************************************)
(* Properties of the packet router.                                        *)
(***************************************************************************)
\* the fingerprints of the broadcasts a node has received / delivered
ReceivedFps(n) ==
    [i \in 1..Len(router[n].received) |->
        fingerprint(router[n].received[i].network_id, router[n].received[i].message)]

DeliveredFps(n) ==
    [i \in 1..Len(router[n].delivered) |->
        fingerprint(router[n].delivered[i].network_id, router[n].delivered[i].message)]

\* C13: a broadcast that reaches the router of a node again, from the same
\* or from another connection, while its fingerprint is held in the dedup
\* queue causes no second local delivery and no second fanout round: every
\* broadcast received has been delivered, each delivery comes with exactly
\* one fanout round, and two deliveries of one fingerprint are further
\* apart than the queue is long.
C13_DedupIdempotent ==
    \A n \in RouterNodes :
        /\ \A i \in 1..Len(ReceivedFps(n)) : InSeq(ReceivedFps(n)[i], DeliveredFps(n))
        /\ [i \in 1..Len(router[n].fanouts) |-> router[n].fanouts[i].fp] = DeliveredFps(n)
        /\ \A i, j \in 1..Len(DeliveredFps(n)) :
              (i < j /\ DeliveredFps(n)[i] = DeliveredFps(n)[j]) => j - i > QueueCap

\* C13 happens: the third node of the triangle has received the same
\* broadcast over both of its connections and has delivered it once, with
\* one fanout round.
C13_Witness ==
    /\ Len(router[3].received) = 2
    /\ ReceivedFps(3)[1] = ReceivedFps(3)[2]
    /\ router[3].received[1].from # router[3].received[2].from
    /\ Len(router[3].delivered) = 1
    /\ Len(router[3].fanouts) = 1

\* C14: a broadcast is re-emitted with the forwarder's id added to the
\* exclusion list the packet carries, so the node that originated a
\* broadcast is never handed that broadcast by one of its connections.
C14_NoBroadcastEcho ==
    \A n \in RouterNodes : \A i \in 1..Len(router[n].received) :
        /\ router[n].received[i].origin # n
        /\ InSeq(router[n].received[i].from, router[n].received[i].packet_type.excluded)

\* what the receiver of node 1 is to observe: the handshake of node 2, then
\* each message node 2 sent, once
ExpectedAtReceiver ==
    <<Observed("Handshake", 0, <<>>)>>
    \o [i \in 1..Len(direct.sent) |->
           Observed("DirectMessage", direct.sent[i].network_id, direct.sent[i].message)]

\* C15: after node 2 has connected to node 1 and sent direct messages to it,
\* also before the handshake was processed, the receiver of node 1 observes
\* the handshake first and then every message once with its payload
\* unchanged: what it has observed is always the beginning of that, and the
\* whole of it once the connection has nothing left in flight.
C15_DirectDeliveredOnce ==
    direct.pc = "connected" =>
        /\ \A i \in 1..Len(direct.pkt_out) :
              i <= Len(ExpectedAtReceiver) /\ direct.pkt_out[i] = ExpectedAtReceiver[i]
        /\ direct.link = <<>> => direct.pkt_out = ExpectedAtReceiver

\* C16: a PeerList response is handled by dialling the listed peers in
\* order, and no peer is dialled once the connected nodes (those connected
\* when the response arrived plus the dials that succeeded since) have
\* reached desired_nodes; the handling ends when the target is reached or
\* the list is exhausted, and dials nobody when the target was met already.
C16_DialsUntilTarget ==
    /\ \A k \in 1..Len(peer_list.dialled) :
          /\ peer_list.dialled[k].peer = peer_list.peers[k]
          /\ peer_list.dialled[k].connected < peer_list.desired_nodes
    /\ peer_list.pc = "idle" =>
          \/ peer_list.rest = <<>>
          \/ peer_list.peer_count + peer_list.new_peers >= peer_list.desired_nodes

\* the conditions under which connect is to refuse
MustRefuse(addr, peer_id_opt) ==
    \/ SelfAddr = addr
    \/ peer_id_opt # 0 /\ find_connection_by_id(peer_id_opt) # 0
    \/ find_connection_by_ip_addr(addr.ip, addr.port) # 0
    \/ unreachable_contains(addr)
    \/ connections_count > max_peers

\* the errors connect returns before it opens a socket
Refusals == {"MaxmimumAmountOfPeers", "UnreachablePeerError", "DuplicatePeerError"}

\* C17: a connect to the node's own address, to an id or an (ip, port)
\* already connected, to an unreachable address, or made over capacity is
\* refused before a socket is opened, and leaves the registry, the
\* unreachable set and the next token as they were.
C17_ConnectRefused ==
    [][\A peer_type \in PeerTypes, addr \in Addrs, peer_id_opt \in {0} \cup NodeIds,
         tcp_ok \in BOOLEAN, reg_ok \in BOOLEAN :
          (connect(peer_type, addr, peer_id_opt, tcp_ok, reg_ok)
              /\ MustRefuse(addr, peer_id_opt))
          => /\ ret'.result \in Refusals
             /\ UNCHANGED <<connections, unreachable_nodes, next_id>>]_vars

\* C18: an outbound connect whose TCP connect fails leaves the address in
\* the unreachable set; a connect to an address of the set is refused,
\* whatever the peer type; a cleanup pass keeps every entry that is not
\* older than 24 h; and no connect is refused as unreachable for an address
\* that is not in the set.
C18_UnreachableRefused ==
    [][/\ \A peer_type \in PeerTypes, addr \in Addrs, peer_id_opt \in {0} \cup NodeIds,
            tcp_ok \in BOOLEAN, reg_ok \in BOOLEAN :
             connect(peer_type, addr, peer_id_opt, tcp_ok, reg_ok)
             => /\ ret'.result = "IoError"
                     => \E u \in unreachable_nodes' : u.addr = addr
                /\ unreachable_contains(addr) => ret'.result \in Refusals
                /\ ret'.result = "UnreachablePeerError" => unreachable_contains(addr)
       /\ cleanup_connections
             => \A u \in unreachable_nodes :
                   now - u.since <= MAX_UNREACHABLE_MARK_TIME => u \in unreachable_nodes']_vars

\* the keep-alive limit of a connection: by the type of the node holding it
keep_alive_limit ==
    IF self_type = "Bootstrapper" THEN MAX_BOOTSTRAPPER_KEEP_ALIVE
    ELSE MAX_NORMAL_KEEP_ALIVE

Tokens(conns) == {conns[i].token : i \in 1..Len(conns)}

\* C19: a cleanup pass returns normally; afterwards no connection idle for
\* longer than its keep-alive limit is in the registry, and every
\* connection within its limit that was not closing stays.
C19_CleanupClosesIdle ==
    [][cleanup_connections
       => /\ ~panicked' /\ ret'.result = "Ok"
          /\ \A i \in 1..Len(connections) :
                IF now - connections[i].last_seen > keep_alive_limit
                THEN connections[i].token \notin Tokens(connections')
                ELSE ~connections[i].closing
                     => connections[i].token \in Tokens(connections')]_vars

\* the reader of e is inside a frame: part of a length prefix or of a
\* payload has been read
MidFrame(e) ==
    ll[e].incoming_msg.pending_bytes > 0 \/ ll[e].incoming_msg.message # <<>>

\* C20: every codec error makes read_stream return an error: a connection
\* that has met a prefix over the ceiling, a failed decryption or a
\* handshake frame out of order has had Err from its last read, and so has
\* a connection whose stream ended (a read of 0 bytes) inside a frame.
C20_CodecErrorsFatal ==
    \A e \in Ends :
        /\ conn_err[e] # "None" => read_ret[e].result = "Err"
        /\ (read_ret[e].read = "eof" /\ MidFrame(e)) => read_ret[e].result = "Err"

\* C21: when servicing a readiness event of a connection raises an error,
\* conn_event does not return the error to its caller: it returns Ok, the
\* connection is left marked closing in the registry (for the next cleanup
\* to remove), and every other connection is as it was.
C21_EventErrorContained ==
    [][\A token \in EventTokens :
          (conn_event(token, "Err") /\ find_connection_by_token(token) # 0) =>
             /\ ret'.result = "Ok"
             /\ Len(connections') = Len(connections)
             /\ \A i \in 1..Len(connections) :
                   IF connections[i].token = token
                   THEN connections'[i] = [connections[i] EXCEPT !.closing = TRUE]
                   ELSE connections'[i] = connections[i]]_vars

\* C22: after a Retransmit request for a known element type (blocks,
\* finalization records, transactions) the node has sent the requester
\* exactly one Direct packet on the request's network for each stored
\* element of that type (stored when the request arrived) seen at or after
\* since_ts, and nothing else; after
\* a request for an unknown element type it has sent nothing.
C22_RetransmitReplays ==
    \A k \in 1..Len(retransmit.request) :
       LET req == retransmit.request[k]
           due == LET Wanted(x) == /\ x.element_type = req.element_type
                                   /\ x.seen_at >= req.since
                  IN  SelectSeq(req.stored, Wanted)
       IN  IF req.element_type \in KnownElementTypes
           THEN retransmit.sent =
                  [j \in 1..Len(due) |->
                     [receiver |-> req.requester, network_id |-> req.nid,
                      message |-> due[j].data]]
           ELSE retransmit.sent = <<>>

\* the connections a ban identity matches: by node id, or by ip
matches_ban(c, b) ==
    IF b.kind = "NodeId" THEN c.peer = b.val ELSE c.ip = b.val

\* C23: a BanNode request received from a peer (its store write succeeding)
\* applies the ban locally: the identity is banned in memory and in the
\* store, and no connection of the banned identity is left open (each is
\* marked closing); the request is re-emitted to the peers if and only if
\* the node is not configured with no_trust_bans.
C23_BanRequestApplied ==
    [][\A peer \in NodeIds, b \in BanIds :
          utils_ban_node(peer, b, TRUE) =>
             /\ b \in banned_peers'
             /\ BanIdSerial(b) \in kvs'
             /\ \A i \in 1..Len(connections') :
                   matches_ban(connections'[i], b) => connections'[i].closing
             /\ (ret'.bcast = "BanNode") <=> ~no_trust_bans]_vars

\* after n bytes of a stream of frames have been read, the next byte is the
\* first byte of a frame's 4-byte length header
RECURSIVE AtFrameStart(_, _)
AtFrameStart(stream, n) ==
    IF n = 0 THEN TRUE
    ELSE IF n < 4 THEN FALSE
    ELSE LET len == ReadU32BE(SubSeq(stream, 1, 4))
         IN  IF n < 4 + len THEN FALSE
             ELSE AtFrameStart(SubSeq(stream, 5 + len, Len(stream)), n - 4 - len)

\* the number of bytes the end e has read of the stream its peer wrote
BytesRead(e) == Len(accepted[Other(e)]) - Len(socket[e])

\* C24: between two reads of a connection without error, pending_bytes is 0
\* exactly when the next byte to be read from the socket is the first byte
\* of a new frame's 4-byte length header, also when a length header has
\* been received in part and when a frame of length 0 has just been read.
C24_PendingZeroAtFrameStart ==
    \A e \in Ends :
       conn_err[e] = "None" =>
          (ll[e].incoming_msg.pending_bytes = 0
             <=> AtFrameStart(accepted[Other(e)], BytesRead(e)))

\* C25: the registry never holds two connections with the same token; no
\* token below 2 is held; and a token is never issued twice: a connection
\* that enters the registry carries the value of next_id, above every
\* token issued before it, and next_id only grows, also after the
\* connection that held a token has been removed.
C25_TokensUnique ==
    [][/\ \A i, j \in 1..Len(connections') :
             connections'[i].token = connections'[j].token => i = j
       /\ \A i \in 1..Len(connections') :
             /\ connections'[i].token >= FIRST_TOKEN
             /\ connections'[i].token < next_id'
             /\ connections'[i].token \notin Tokens(connections) =>
                   connections'[i].token = next_id
       /\ next_id' >= next_id
       /\ ret'.op \in {"accept", "connect"} =>
             next_id' > next_id \/ Tokens(connections') \subseteq Tokens(connections)]_vars

\* a token has been taken and its connection is gone; the next accept was
\* given the token after it
C25_Witness ==
    /\ ret.op = "accept"
    /\ next_id = FIRST_TOKEN + 2
    /\ Tokens(connections) = {FIRST_TOKEN + 1}

\* C26: no two connections of the registry that have completed their
\* handshake carry the same peer id: a connection, inbound or outbound,
\* whose handshake announces an id that another connection holds is
\* rejected.
C26_PeerIdUnique ==
    \A i, j \in 1..Len(connections) :
       (connections[i].peer # 0 /\ connections[i].peer = connections[j].peer) => i = j

\* the tokens of the connections a peer report names
StatTokens(stats) == {stats[k].token : k \in 1..Len(stats)}

\* the tokens of the connections whose peers are in the buckets
BucketTokens(bs) == {b.token : b \in bs}

\* C27: a connection whose application handshake has not completed (no
\* peer set) is neither in the buckets nor in the report of get_peer_stats
\* after any step, and a connection enters the buckets and the report
\* only by the step that receives its handshake.
C27_PreHandshakeHidden ==
    [][/\ \A i \in 1..Len(connections') :
             connections'[i].peer = 0 =>
                /\ connections'[i].token \notin BucketTokens(buckets')
                /\ connections'[i].token \notin StatTokens(get_peer_stats')
       /\ (BucketTokens(buckets') \ BucketTokens(buckets) # {}
            \/ StatTokens(get_peer_stats') \ StatTokens(get_peer_stats) # {})
              => ret'.op = "handshake"]_vars

\* one connection has completed its handshake and is reported and in the
\* buckets, another is held without a peer
C27_Witness ==
    /\ Len(connections) = 2
    /\ Len(get_peer_stats) = 1
    /\ BucketTokens(buckets) = StatTokens(get_peer_stats)
    /\ \E i \in 1..2 : connections[i].peer = 0

\* C28: no socket read or write and no encryption or decryption goes on
\* while the lock of the connection registry is held; servicing a
\* readiness event and sending over all connections do their I/O with the
\* lock free.
C28_NoIoUnderRegistryLock ==
    dptr.io # "none" => dptr.writer = "none"

\* C29: on shutdown, once the node's thread has exited, every consumer
\* thread that was started (the consumer of the packet queue, the global
\* state thread, the baker thread) is sent a stop value on its queue,
\* terminates and is joined: main eventually returns, with no thread left
\* running.
C29_MainReturns ==
    <>(/\ threads.main = "returned"
       /\ threads.global_state # "running"
       /\ threads.guard_pkt # "running"
       /\ threads.baker # "running")

\* C30: a ban writes to the store first, then requests the closure of every
\* connection that matches the banned identity, then broadcasts BanNode if
\* trust-bans are enabled: when the store write fails the ban returns the
\* error with no connection closed and nothing broadcast; when it succeeds
\* the key is in the store, every matching connection is marked closing
\* and no other is, and the broadcast is made exactly when no_trust_bans
\* is false.
C30_BanOrder ==
    [][\A b \in BanIds :
          /\ ban_node(b, FALSE) =>
                /\ ret'.result # "Ok"
                /\ kvs' = kvs
                /\ connections' = connections
                /\ ret'.bcast = "None"
          /\ ban_node(b, TRUE) =>
                /\ BanIdSerial(b) \in kvs'
                /\ \A i \in 1..Len(connections) :
                      connections'[i].closing =
                         (connections[i].closing \/ matches_ban(connections[i], b))
                /\ (ret'.bcast = "BanNode") <=> ~no_trust_bans]_vars

\* C31: every successful read on a connection sets its last_seen to the
\* current time, whatever the type of the node, so that right after the
\* read the connection is within its keep-alive limit.
C31_ReadRefreshesLastSeen ==
    [][\A token \in EventTokens :
          \A i \in {find_connection_by_token(token)} :
             (i # 0 /\ conn_event(token, "Ok"))
                => /\ connections'[i].last_seen = now
                   /\ now - connections'[i].last_seen <= keep_alive_limit]_vars

\* C32: a cleanup pass returns normally and removes every connection with
\* 50 or more failed packets, whatever the type of the node; a connection
\* with fewer that is within its keep-alive limit and not closing stays.
C32_FailedPacketsClose ==
    [][cleanup_connections
       => \A i \in 1..Len(connections) :
             IF connections[i].failed_pkts >= MAX_FAILED_PACKETS_ALLOWED
             THEN /\ ~panicked'
                  /\ connections[i].token \notin Tokens(connections')
             ELSE (/\ now - connections[i].last_seen <= keep_alive_limit
                   /\ ~connections[i].closing)
                  => connections[i].token \in Tokens(connections')]_vars

\* C33: a cleanup pass removes every connection that is closing, which no
\* lookup finds afterwards, and removes no other connection than those
\* that are closing or meet its timeout, failed-packet or ban check.
C33_ClosingRemoved ==
    [][cleanup_connections
       => \A i \in 1..Len(connections) :
             /\ connections[i].closing
                   => /\ connections[i].token \notin Tokens(connections')
                      /\ \A j \in 1..Len(connections') :
                            connections'[j] # connections[i]
             /\ connections[i].token \notin Tokens(connections')
                   => \/ connections[i].closing
                      \/ timed_out(connections[i])
                      \/ is_id_banned(connections[i].peer)]_vars

\* C34: serialization round-trips: the packet type read back from the
\* bytes serial wrote is the packet type written, the exclusion list of a
\* broadcast included, and the packet read back from the bytes serial wrote
\* is the packet written, with no byte left over.
C34_PacketRoundTrip ==
    packet_io.pc = "read"
       => /\ packet_io.type_out.ok
          /\ packet_io.type_out.value = packet_io.pac.packet_type
          /\ packet_io.type_out.rest = <<>>
          /\ packet_io.out.ok
          /\ packet_io.out.value = packet_io.pac
          /\ packet_io.out.rest = <<>>

\* C35: remove_network(n) takes n out of the server's networks and leaves
\* every other network in them; add_network(n) puts n in and leaves the
\* others as they are.
C35_NetworkFrame ==
    [][\A network_id \in ServerNetworks :
          /\ remove_network(network_id) => networks' = networks \ {network_id}
          /\ add_network(network_id) => networks' = networks \cup {network_id}]_vars

C37_FailedAcceptLeavesRegistry ==
    [][\A addr \in Addrs, reg_ok \in BOOLEAN :
          (accept(addr, reg_ok) /\ ret'.result # "Ok")
             => connections' = connections]_vars

\* C38: every pass through the copy loop of flush_socket either moves the
\* cursor of the message being written forward or leaves the loop, whatever
\* the socket write returns.
C38_CopyLoopProgress ==
    [][\A outcome \in WriteOutcomes, k \in 0..MaxMessageLen :
          partial_copy(outcome, k)
             => \/ flush_io'.message.pos > flush_io.message.pos
                \/ flush_io'.pc # "copy"]_vars

\* the BanNode requests in flight between the nodes
BansInFlight ==
    {link \in RouterNodes \X RouterNodes : ban_net.chan[link] # <<>>}

\* C39: ban propagation quiesces: after a single ban issued at one node of
\* a connected set of nodes that trust peer bans, eventually no BanNode
\* request is in flight any more, and none is ever again.
C39_BanQuiesces ==
    <>[](ban_net.issued /\ BansInFlight = {})

\* the frame that holds the byte at offset n of the stream: its declared
\* length and the payload bytes before that offset (len = -1: n is in a
\* length header)
RECURSIVE FramePos(_, _)
FramePos(stream, n) ==
    IF n < 4 THEN [len |-> -1, got |-> 0]
    ELSE LET len == ReadU32BE(SubSeq(stream, 1, 4))
         IN  IF n < 4 + len THEN [len |-> len, got |-> n - 4]
             ELSE FramePos(SubSeq(stream, 5 + len, Len(stream)), n - 4 - len)

\* C40: between two socket reads, while the payload of a frame of declared
\* length L is being read, the payload bytes buffered plus pending_bytes
\* equal L; pending_bytes is never below 0 and the buffer never holds more
\* than L bytes.
C40_PendingAccounting ==
    \A e \in Ends :
       conn_err[e] = "None"
          => /\ ll[e].incoming_msg.pending_bytes >= 0
             /\ ll[e].incoming_msg.pending_bytes > 0
                   => \E f \in {FramePos(accepted[Other(e)], BytesRead(e))} :
                         /\ f.len >= 0
                         /\ Len(ll[e].incoming_msg.message) = f.got
                         /\ Len(ll[e].incoming_msg.message)
                               + ll[e].incoming_msg.pending_bytes = f.len
                         /\ Len(ll[e].incoming_msg.message) <= f.len

\* a payload of several bytes has been read in part, in more than one read
C40_Witness ==
    \E e \in Ends :
       /\ conn_err[e] = "None"
       /\ ll[e].incoming_msg.pending_bytes > 0
       /\ Len(ll[e].incoming_msg.message) > 1
       /\ is_post_handshake(ll[e])
       /\ read_ret[e].read = "bytes"

CeilDiv(a, b) == (a + b - 1) \div b

\* C10: a payload is sealed in chunks of at most 65519 plaintext bytes and
\* at most 65535 sealed bytes, the number of chunks is the total sealed
\* length divided by 65535 and rounded up, and the receiver's counting rule
\* cuts the sealed bytes at the writer's chunk boundaries.
C10_ChunkBoundaries ==
    /\ chunk_pc # "input" =>
          /\ \A i \in 1..Len(sealed_lens) :
                /\ sealed_lens[i] <= NOISE_MAX_MESSAGE_LEN
                /\ sealed_lens[i] - MAC_LENGTH <= NOISE_MAX_PAYLOAD_LEN
                /\ sealed_lens[i] - MAC_LENGTH >= 1
          /\ SumSeq(sealed_lens) = plain_len + MAC_LENGTH * Len(sealed_lens)
          /\ Len(sealed_lens) = CeilDiv(SumSeq(sealed_lens), NOISE_MAX_MESSAGE_LEN)
    /\ chunk_pc = "cut" => cut_lens = sealed_lens

\* C10 happens: a payload of two full chunks and one more byte has been
\* sealed and cut.
C10_Witness ==
    /\ chunk_pc = "cut"
    /\ plain_len = 2 * NOISE_MAX_PAYLOAD_LEN + 1
    /\ cut_lens = <<NOISE_MAX_MESSAGE_LEN, NOISE_MAX_MESSAGE_LEN, 1 + MAC_LENGTH>>

=============================================================================
